---- MODULE Spec2Model ----
(***************************************************************************)
(* PDF Sentinel: stamper (core/stamper.py), verifier (core/verifier.py)    *)
(* and key store / signer (core/signer.py) as a state machine over a small *)
(* file system of documents and one installation's key directory.          *)
(*                                                                         *)
(* Text is modelled character by character (a string is a sequence of      *)
(* one-character strings) so that split, strip, startswith, slicing and    *)
(* join are computed as Python computes them.  SHA-256 is modelled as an   *)
(* ideal hash: a digest is identified with the byte sequence that was fed  *)
(* to the accumulator, so two digests are equal exactly when the           *)
(* concatenated inputs are equal.                                          *)
(***************************************************************************)
EXTENDS Integers, Sequences, FiniteSets, TLC

VARIABLES
    fs,        \* path -> file on disk (NoFile when absent)
    keys,      \* the installation's key directory: private and public PEM files
    clock,     \* datetime.now(): today's date and a tick of the time of day
    settings,  \* the seal options the caller passes to stamp_pdf
    hist,      \* path -> what happened to the file since it was written (ghost)
    ops,       \* number of stampings, alterations and moves so far
    last,      \* the last call made and what it returned
    watcher,   \* the FolderWatcher object and the thread that calls start and stop
    observers, \* session -> the observer thread and the handler of that session
    wlog,      \* what the file system delivered and what the handlers did (ghost)
    procs      \* process -> where it is in get_or_create_keys and what it holds

coreVars == <<fs, keys, clock, settings, hist, ops, last, procs>>
watchVars == <<watcher, observers, wlog>>
vars == <<fs, keys, clock, settings, hist, ops, last, watcher, observers, wlog, procs>>

----------------------------------------------------------------------------
(* Bounds of the model *)

MaxPages == 2      \* pages of an input document
MaxLines == 1      \* text lines of an input document, over all its pages
MaxOps == 3        \* stampings, alterations and moves in one behaviour

----------------------------------------------------------------------------
(* Character data *)

NL == "\n"
Whitespace == {" ", "\t", NL}

SEAL_TEXT_DEFAULT == <<"S", "E", "N", "T", "I", "N", "E", "L", " ", "V", "E", "R", "I", "F", "I", "E", "D">>
SealTextApproved == <<"A", "P", "P", "R", "O", "V", "E", "D">>
SealTextLong == <<"S", "E", "N", "T", "I", "N", "E", "L", " ", "V", "E", "R", "I", "F", "I", "E", "D", " ", "B", "Y", " ", "A", "C", "M", "E", " ", "C", "O", "R", "P">>

MarkerHeader == <<"S", "E", "N", "T", "I", "N", "E", "L", " ", "V", "E", "R", "I", "F", "I", "E", "D">>
MarkerHash == <<"H", "a", "s", "h", ":", " ", ".", ".", ".">>
MarkerDate == <<"D", "a", "t", "e", ":", " ", "2", "0">>

HashLabel == <<"H", "a", "s", "h", ":", " ", ".", ".", ".">>
DateLabel == <<"D", "a", "t", "e", ":", " ">>

LineHello == <<"H", "e", "l", "l", "o">>
LineHelloBang == <<"H", "e", "l", "l", "o", "!">>
LineUserDate == <<" ", "D", "a", "t", "e", ":", " ", "2", "0", "2", "4", " ", "r", "e", "v", "i", "e", "w">>

Date2026 == <<"2", "0", "2", "6", "-", "1", "1", "-", "0", "3">>
Dates == <<Date2026>>

ImgDescriptor == <<"(", "7", ",", " ", "6", "4", ",", " ", "6", "4", ")">>

Digits == <<"0", "1", "2", "3", "4", "5", "6", "7", "8", "9">>

\* The text lines an input document may carry.
UserLines == {LineHello, LineHelloBang, LineUserDate}
\* The header texts the caller may configure.
SealTexts == {SEAL_TEXT_DEFAULT, SealTextApproved, SealTextLong}
SealPositions == {"top-right", "top-left", "bottom-right", "bottom-left"}

----------------------------------------------------------------------------
(* Python string operations *)

\* s[:n]
Take(s, n) == SubSeq(s, 1, IF n < Len(s) THEN n ELSE Len(s))

\* s[-n:]
LastN(s, n) == SubSeq(s, (IF Len(s) > n THEN Len(s) - n ELSE 0) + 1, Len(s))

\* s.startswith(p)
StartsWith(s, p) == Len(s) >= Len(p) /\ SubSeq(s, 1, Len(p)) = p

RECURSIVE LStrip(_)
LStrip(s) == IF s # <<>> /\ Head(s) \in Whitespace THEN LStrip(Tail(s)) ELSE s

RECURSIVE RStrip(_)
RStrip(s) ==
    IF s # <<>> /\ s[Len(s)] \in Whitespace THEN RStrip(SubSeq(s, 1, Len(s) - 1)) ELSE s

\* s.strip()
Strip(s) == RStrip(LStrip(s))

\* s.split('\n'): the pieces between the newlines, so one more piece than
\* there are newlines, the last one possibly empty
FirstNewline(s) ==
    CHOOSE i \in 1..Len(s) : s[i] = NL /\ \A j \in 1..(i - 1) : s[j] # NL

RECURSIVE Split(_)
Split(s) ==
    IF \A i \in 1..Len(s) : s[i] # NL THEN <<s>>
    ELSE <<SubSeq(s, 1, FirstNewline(s) - 1)>>
            \o Split(SubSeq(s, FirstNewline(s) + 1, Len(s)))

\* '\n'.join(pieces)
RECURSIVE Join(_)
Join(pieces) ==
    IF pieces = <<>> THEN <<>>
    ELSE IF Len(pieces) = 1 THEN pieces[1]
    ELSE pieces[1] \o <<NL>> \o Join(Tail(pieces))

RECURSIVE Concat(_)
Concat(ss) == IF ss = <<>> THEN <<>> ELSE Head(ss) \o Concat(Tail(ss))

LowerCase == <<"a", "b", "c", "d", "e", "f", "g", "h", "i", "j", "k", "l", "m", "n", "o", "p", "q", "r", "s", "t", "u", "v", "w", "x", "y", "z">>
UpperCase == <<"A", "B", "C", "D", "E", "F", "G", "H", "I", "J", "K", "L", "M", "N", "O", "P", "Q", "R", "S", "T", "U", "V", "W", "X", "Y", "Z">>

IndexIn(c, alphabet) ==
    IF \E i \in 1..Len(alphabet) : alphabet[i] = c
    THEN CHOOSE i \in 1..Len(alphabet) : alphabet[i] = c
    ELSE 0

UpperChar(c) == IF IndexIn(c, LowerCase) > 0 THEN UpperCase[IndexIn(c, LowerCase)] ELSE c
LowerChar(c) == IF IndexIn(c, UpperCase) > 0 THEN LowerCase[IndexIn(c, UpperCase)] ELSE c

\* s.upper(), s.lower()
Upper(s) == [i \in 1..Len(s) |-> UpperChar(s[i])]
Lower(s) == [i \in 1..Len(s) |-> LowerChar(s[i])]

\* sub in s
Contains(s, sub) ==
    \E i \in 0..(Len(s) - Len(sub)) : SubSeq(s, i + 1, i + Len(sub)) = sub

----------------------------------------------------------------------------
(* core/hasher.py and hashlib: the digest of a byte sequence *)

Sha256Prefix == <<"s", "h", "a", "2", "5", "6", ":">>

\* hashlib.sha256(bytes).hexdigest() of an ideal hash: the digest stands for
\* its preimage.  A digest is printable, so the newline of the preimage is
\* written "/" (a character no text of the model contains).
HexDigest(bytes) == [i \in 1..Len(bytes) |-> IF bytes[i] = NL THEN "/" ELSE bytes[i]]

\* f"sha256:{hasher.hexdigest()}"
Digest(bytes) == Sha256Prefix \o HexDigest(bytes)

----------------------------------------------------------------------------
(* Python values as they travel through json and the VerificationResult *)

\* A scalar: t is "missing" (no such key), "none", "str" or "num".
Missing == [t |-> "missing", s |-> <<>>, n |-> 0]
None == [t |-> "none", s |-> <<>>, n |-> 0]
Str(chars) == [t |-> "str", s |-> chars, n |-> 0]
Num(k) == [t |-> "num", s |-> <<>>, n |-> k]

\* bool(v): None, "", 0 are false
Truthy(v) ==
    CASE v.t = "str" -> v.s # <<>>
      [] v.t = "num" -> v.n # 0
      [] OTHER -> FALSE

MetadataKeys ==
    {"sentinel_hash", "sentinel_content_hash", "sentinel_timestamp",
     "sentinel_version", "sentinel_signature", "sentinel_key_fingerprint"}

EmptyDict == [k \in MetadataKeys |-> Missing]

\* d.get(k)
DictGet(d, k) == IF d[k].t = "missing" THEN None ELSE d[k]

\* What json.loads may return: a dict, a string, a list of strings, a number.
JDict(d) == [t |-> "dict", d |-> d, s |-> <<>>, items |-> <<>>, n |-> 0]
JStr(chars) == [t |-> "str", d |-> EmptyDict, s |-> chars, items |-> <<>>, n |-> 0]
JList(items) == [t |-> "list", d |-> EmptyDict, s |-> <<>>, items |-> items, n |-> 0]
JNum(k) == [t |-> "num", d |-> EmptyDict, s |-> <<>>, items |-> <<>>, n |-> k]

\* The keyword field of the document metadata: a text that is JSON or not.
\* json.dumps(value) is the JSON text of value; json.loads gives the value back
\* and raises JSONDecodeError on any other text.
JsonDumps(value) == [json |-> TRUE, val |-> value, raw |-> <<>>]
PlainKeywords(chars) == [json |-> FALSE, val |-> JNum(0), raw |-> chars]
NoKeywords == PlainKeywords(<<>>)

KeySentinelHash == <<"s", "e", "n", "t", "i", "n", "e", "l", "_", "h", "a", "s", "h">>

\* "sentinel_hash" in data; "raise" stands for the TypeError of a number
HasSentinelHash(data) ==
    CASE data.t = "dict" -> IF data.d["sentinel_hash"].t # "missing" THEN "yes" ELSE "no"
      [] data.t = "str" -> IF Contains(data.s, KeySentinelHash) THEN "yes" ELSE "no"
      [] data.t = "list" ->
            IF \E i \in 1..Len(data.items) : data.items[i] = KeySentinelHash
            THEN "yes" ELSE "no"
      [] OTHER -> "raise"

----------------------------------------------------------------------------
(* Documents as PyMuPDF shows them *)

\* A page: its own text lines, the text lines seals have inserted (they
\* follow the page's own text in extraction order) and its image descriptors.
Page(lines, seal, images) == [lines |-> lines, seal |-> seal, images |-> images]

\* A file: readable is "ok", "badpage" (opens, but text extraction raises) or
\* "notpdf" (fitz.open raises).
File(pages, keywords) ==
    [exists |-> TRUE, readable |-> "ok", pages |-> pages, keywords |-> keywords]
NoFile == [exists |-> FALSE, readable |-> "notpdf", pages |-> <<>>, keywords |-> NoKeywords]

RECURSIVE LinesText(_)
LinesText(ls) == IF ls = <<>> THEN <<>> ELSE Head(ls) \o <<NL>> \o LinesText(Tail(ls))

\* page.get_text("text"): every line followed by a newline
GetText(page) == LinesText(page.lines \o page.seal)

\* str(img) for img in page.get_images(), concatenated
ImagesBytes(page) == Concat(page.images)

----------------------------------------------------------------------------
(* The bytes of a file, for calculate_sha256 *)

KeyOrder ==
    <<"sentinel_hash", "sentinel_content_hash", "sentinel_timestamp",
      "sentinel_version", "sentinel_signature", "sentinel_key_fingerprint">>

ScalarBytes(v) ==
    CASE v.t = "str" -> <<"'">> \o v.s \o <<"'">>
      [] v.t = "num" -> <<Digits[v.n + 1]>>
      [] v.t = "none" -> <<"~">>
      [] OTHER -> <<>>

KeywordsBytes(kw) ==
    IF ~kw.json THEN kw.raw
    ELSE CASE kw.val.t = "dict" ->
                <<"{">> \o Concat([i \in 1..Len(KeyOrder) |->
                                      ScalarBytes(kw.val.d[KeyOrder[i]]) \o <<";">>])
           [] kw.val.t = "str" -> <<"'">> \o kw.val.s \o <<"'">>
           [] kw.val.t = "list" -> <<"[">> \o Concat(kw.val.items)
           [] OTHER -> <<Digits[kw.val.n + 1]>>

PageBytes(page) == GetText(page) \o ImagesBytes(page) \o <<"^">>

FileBytes(file) ==
    Concat([i \in 1..Len(file.pages) |-> PageBytes(file.pages[i])])
        \o <<"|">> \o KeywordsBytes(file.keywords)

\* calculate_sha256(file_path); the caller has checked that the file exists
calculate_sha256(file) == Digest(FileBytes(file))

----------------------------------------------------------------------------
(* core/signer.py *)

PrivTag == <<"p", "r", "i", "v">>
PubTag == <<"p", "u", "b">>
SigTag == <<"S", "I", "G">>

\* The PEM files of key pair number k.
PrivPem(k) == PrivTag \o <<Digits[k + 1]>>
PubPem(k) == PubTag \o <<Digits[k + 1]>>

\* serialization.load_pem_private_key / load_pem_public_key succeed
PrivLoads(pem) == Len(pem) = 5 /\ StartsWith(pem, PrivTag)
PubLoads(pem) == Len(pem) = 4 /\ StartsWith(pem, PubTag)

NoKeys == [privExists |-> FALSE, priv |-> <<>>, pubExists |-> FALSE, pub |-> <<>>, gen |-> 0]
KeyPair(k) ==
    [privExists |-> TRUE, priv |-> PrivPem(k), pubExists |-> TRUE, pub |-> PubPem(k), gen |-> k]

\* get_or_create_keys(): the key directory afterwards and the pair returned.
\* generate_key_pair() makes a key pair no one has made before.
get_or_create_keys(ks) ==
    IF ks.privExists /\ ks.pubExists
    THEN [keys |-> ks, priv |-> ks.priv, pub |-> ks.pub]
    ELSE [keys |-> KeyPair(ks.gen + 1),
          priv |-> PrivPem(ks.gen + 1), pub |-> PubPem(ks.gen + 1)]

\* get_public_key_pem()
get_public_key_pem(ks) == get_or_create_keys(ks)

\* The processes that may be inside get_or_create_keys at the same time, and
\* the calls each of them makes.
MaxProcs == 2
MaxCalls == 2

\* A process: pc is "out" (not in the function), "write_priv" (the existence
\* test of line 67 failed, a pair was generated), "write_pub" (line 74-75
\* done), "read_priv" (the test succeeded) or "read_pub" (line 68-69 done);
\* priv and pub are its local private_pem and public_pem, calls the calls it
\* has begun, returned whether priv and pub are what its last call returned.
NoProc == [pc |-> "out", priv |-> <<>>, pub |-> <<>>, calls |-> 0, returned |-> FALSE]
NoProcs == [p \in 1..MaxProcs |-> NoProc]

\* A private and a public PEM that belong to one key pair.
MatchingPair(priv, pub) == PrivLoads(priv) /\ PubLoads(pub) /\ priv[Len(priv)] = pub[Len(pub)]

\* get_key_fingerprint(public_key_pem): key_hash[-16:].upper()
FingerprintLen == 16
get_key_fingerprint(public_key_pem) == Upper(LastN(HexDigest(public_key_pem), FingerprintLen))

\* The base64 text of a PSS signature of msg made with private key pem.
SignatureOf(privPem, msg) == SigTag \o <<privPem[Len(privPem)]>> \o <<":">> \o msg

\* sign_hash(content_hash) with the stored key: the key directory afterwards,
\* whether load_pem_private_key raised, and the signature.
sign_hash(content_hash, ks) ==
    LET got == get_or_create_keys(ks) IN
    [keys |-> got.keys,
     raised |-> ~PrivLoads(got.priv),
     signature |-> IF PrivLoads(got.priv) THEN SignatureOf(got.priv, content_hash) ELSE <<>>]

\* Characters that are not in the base64 alphabet.  (The model writes a
\* signature's base64 text with the characters of the digest it signs; "$"
\* and "\r" occur in no digest.)
CR == "\r"
B64Junk == {"$", CR}
InAlphabet(c) == c \notin B64Junk

\* base64.b64decode(s) with validate=False: characters outside the alphabet
\* are discarded before the text is decoded.
b64decode(s) == SelectSeq(s, InAlphabet)

\* verify_signature as a call: whether it raised, and what it returned.
\* Every exception (unparsable key, a value that is no string, a text
\* that does not decode) is caught and gives False.
verify_signature_call(content_hash, signature_b64, public_key_pem) ==
    [raised |-> FALSE,
     result |-> /\ PubLoads(public_key_pem)
                /\ signature_b64.t = "str"
                /\ content_hash.t = "str"
                /\ b64decode(signature_b64.s) =
                      SigTag \o <<public_key_pem[Len(public_key_pem)]>> \o <<":">> \o content_hash.s]

\* verify_signature(content_hash, signature_b64, public_key_pem)
verify_signature(content_hash, signature_b64, public_key_pem) ==
    verify_signature_call(content_hash, signature_b64, public_key_pem).result

----------------------------------------------------------------------------
(* core/stamper.py *)

SENTINEL_VERSION == <<"1", ".", "3", ".", "2">>
StampedSuffix == <<"_", "s", "t", "a", "m", "p", "e", "d">>
PdfSuffix == <<".", "p", "d", "f">>

SealTextCap == 25
ShortHashLen == 12
DateLen == 10

\* Path(...).parent / f"{input_path.stem}_stamped.pdf"
DefaultOutputPath(input_path) == [stem |-> input_path.stem \o StampedSuffix, suffix |-> PdfSuffix]

\* _calculate_content_hash(doc): one accumulator over all pages
_calculate_content_hash(pages) ==
    Digest(Concat([i \in 1..Len(pages) |-> GetText(pages[i]) \o ImagesBytes(pages[i])]))

\* The three tests of get_current_content_hash on one line of page 0.
IsSealLine(line) ==
    \/ StartsWith(Strip(line), MarkerHeader)
    \/ StartsWith(Strip(line), MarkerHash)
    \/ StartsWith(Strip(line), MarkerDate)

KeepsLine(line) == ~IsSealLine(line)

\* text.split('\n'), drop the seal lines, '\n'.join
FilterSealText(text) == Join(SelectSeq(Split(text), KeepsLine))

\* A variant that drops the seal lines from every page.
get_current_content_hash_AllPages(file) ==
    IF file.readable # "ok" THEN None
    ELSE Str(Digest(Concat([i \in 1..Len(file.pages) |->
                FilterSealText(GetText(file.pages[i])) \o ImagesBytes(file.pages[i])])))

\* get_current_content_hash(pdf_path) on a file that exists: None when
\* anything raises, else the digest with the seal lines of page 0 left out
get_current_content_hash(file) ==
    IF file.readable # "ok" THEN None
    ELSE Str(Digest(Concat([i \in 1..Len(file.pages) |->
                (IF i = 1 THEN FilterSealText(GetText(file.pages[i]))
                          ELSE GetText(file.pages[i]))
                    \o ImagesBytes(file.pages[i])])))

\* positions.get(position, positions["top-right"])
SealRect(position) == IF position \in SealPositions THEN position ELSE "top-right"

\* The three page.insert_text calls of _add_visual_seal.
SealLines(file_hash, timestamp, seal_text) ==
    <<Take(seal_text, SealTextCap),
      HashLabel \o LastN(file_hash, ShortHashLen),
      DateLabel \o Take(timestamp, DateLen)>>

\* _add_visual_seal(page, ...): the page with the seal's text added
_add_visual_seal(page, file_hash, timestamp, position, seal_text) ==
    [page EXCEPT !.seal = @ \o SealLines(file_hash, timestamp, seal_text)]

\* datetime.now(timezone.utc).isoformat()
IsoFormat(now) == Dates[now.date] \o <<"T">> \o <<Digits[now.tick + 1]>>

\* The record stamp_pdf embeds.
SentinelData(file_hash, content_hash, timestamp, signature, key_fingerprint) ==
    [k \in MetadataKeys |->
        CASE k = "sentinel_hash" -> Str(file_hash)
          [] k = "sentinel_content_hash" -> Str(content_hash)
          [] k = "sentinel_timestamp" -> Str(timestamp)
          [] k = "sentinel_version" -> Str(SENTINEL_VERSION)
          [] k = "sentinel_signature" -> Str(signature)
          [] OTHER -> Str(key_fingerprint)]

\* A variant that leaves a record already in the keyword field where it is.
EmbedMetadata_KeepOld(old, sentinel_data) ==
    IF old.json /\ old.val.t = "dict" THEN old ELSE JsonDumps(JDict(sentinel_data))

\* metadata["keywords"] = json.dumps(sentinel_data): the keyword field after
\* stamping a document whose field held old
EmbedMetadata(old, sentinel_data) == JsonDumps(JDict(sentinel_data))

\* stamp_pdf(input_path, output_path, add_visual_seal, seal_position, seal_text)
\* run on file system fsys with key directory ks at time now: whether it
\* raised, the file system and key directory it leaves, and what it returns.
stamp_pdf(fsys, ks, now, input_path, output_path, add_visual_seal, seal_position, seal_text) ==
    LET input == fsys[input_path]
        file_hash == calculate_sha256(input)
        timestamp == IsoFormat(now)
        content_hash == _calculate_content_hash(input.pages)
        got == get_public_key_pem(ks)
        signed == sign_hash(content_hash, got.keys)
        key_fingerprint == get_key_fingerprint(got.pub)
        sentinel_data ==
            SentinelData(file_hash, content_hash, timestamp, signed.signature, key_fingerprint)
        sealed ==
            IF add_visual_seal /\ Len(input.pages) > 0
            THEN [input.pages EXCEPT ![1] =
                     _add_visual_seal(@, file_hash, timestamp, SealRect(seal_position), seal_text)]
            ELSE input.pages
        output == File(sealed, EmbedMetadata(input.keywords, sentinel_data))
        failed(ks1) == [raised |-> TRUE, fs |-> fsys, keys |-> ks1, output_path |-> output_path,
                        hash |-> <<>>, content_hash |-> <<>>, timestamp |-> <<>>]
    IN  IF ~input.exists \/ input.readable # "ok" THEN failed(ks)
        ELSE IF signed.raised THEN failed(signed.keys)
        ELSE [raised |-> FALSE,
              fs |-> [fsys EXCEPT ![output_path] = output],
              keys |-> signed.keys,
              output_path |-> output_path,
              hash |-> file_hash,
              content_hash |-> content_hash,
              timestamp |-> timestamp]

\* get_sentinel_metadata(pdf_path) on a file that exists: whether it returns
\* a value (found) or None, and the value, which is whatever json.loads gave
get_sentinel_metadata(file) ==
    IF file.readable = "notpdf" THEN [found |-> FALSE, data |-> JNum(0)]
    ELSE IF ~file.keywords.json THEN [found |-> FALSE, data |-> JNum(0)]
    ELSE IF HasSentinelHash(file.keywords.val) = "yes"
         THEN [found |-> TRUE, data |-> file.keywords.val]
         ELSE [found |-> FALSE, data |-> JNum(0)]

----------------------------------------------------------------------------
(* core/verifier.py *)

VerificationResult(status, message, original_hash, current_hash, timestamp, version, signature_valid, key_fingerprint) ==
    [status |-> status, message |-> message, original_hash |-> original_hash,
     current_hash |-> current_hash, timestamp |-> timestamp, version |-> version,
     signature_valid |-> signature_valid, key_fingerprint |-> key_fingerprint]

\* A result built with the dataclass defaults for everything but the message.
BareResult(status, message) ==
    VerificationResult(status, message, None, None, None, None, "None", None)

NoResult == BareResult("none", "")

\* A variant that verifies the signature whatever key the record names.
SignatureStep_AnyKey(ks, stored_content_hash, signature, key_fingerprint) ==
    IF Truthy(signature) /\ Truthy(key_fingerprint)
    THEN LET got == get_public_key_pem(ks)
         IN  [keys |-> got.keys,
              touched |-> TRUE,
              valid |-> IF verify_signature(stored_content_hash, signature, got.pub)
                        THEN "True" ELSE "False"]
    ELSE [keys |-> ks, touched |-> FALSE, valid |-> "None"]

\* Lines 108-123 of verify_pdf: the signature step.  Gives the key directory
\* afterwards and signature_valid ("True", "False" or "None").
SignatureStep(ks, stored_content_hash, signature, key_fingerprint) ==
    IF Truthy(signature) /\ Truthy(key_fingerprint)
    THEN LET got == get_public_key_pem(ks)
             local_fingerprint == Str(get_key_fingerprint(got.pub))
         IN  [keys |-> got.keys,
              touched |-> TRUE,
              valid |-> IF local_fingerprint = key_fingerprint
                        THEN (IF verify_signature(stored_content_hash, signature, got.pub)
                              THEN "True" ELSE "False")
                        ELSE "None"]
    ELSE [keys |-> ks, touched |-> FALSE, valid |-> "None"]

\* A variant that reports an unknown signature as an invalid one.
CompareHashes_UnknownAsInvalid(stored_content_hash, current_content_hash, signature_valid, original_hash, timestamp, version, key_fingerprint) ==
    IF stored_content_hash = current_content_hash
    THEN VerificationResult("VERIFIED",
            IF signature_valid = "True" THEN "verified | Signature verified"
                                        ELSE "verified | Signature INVALID",
            original_hash, current_content_hash, timestamp, version,
            IF signature_valid = "True" THEN "True" ELSE "False", key_fingerprint)
    ELSE VerificationResult("TAMPERED", "tampered",
            original_hash, current_content_hash, timestamp, version,
            "False", key_fingerprint)

\* A variant that reports the signature as computed on a mismatch too.
CompareHashes_KeepSignature(stored_content_hash, current_content_hash, signature_valid, original_hash, timestamp, version, key_fingerprint) ==
    VerificationResult(IF stored_content_hash = current_content_hash
                       THEN "VERIFIED" ELSE "TAMPERED",
                       IF stored_content_hash = current_content_hash
                       THEN "verified" ELSE "tampered",
                       original_hash, current_content_hash, timestamp, version,
                       signature_valid, key_fingerprint)

\* A variant in which an invalid signature makes the document TAMPERED.
CompareHashes_InvalidSignatureTampers(stored_content_hash, current_content_hash, signature_valid, original_hash, timestamp, version, key_fingerprint) ==
    IF stored_content_hash = current_content_hash /\ signature_valid # "False"
    THEN VerificationResult("VERIFIED",
            IF signature_valid = "True" THEN "verified | Signature verified" ELSE "verified",
            original_hash, current_content_hash, timestamp, version,
            signature_valid, key_fingerprint)
    ELSE VerificationResult("TAMPERED", "tampered",
            original_hash, current_content_hash, timestamp, version,
            "False", key_fingerprint)

\* Lines 125-153 of verify_pdf: the comparison and the result built from it.
CompareHashes(stored_content_hash, current_content_hash, signature_valid, original_hash, timestamp, version, key_fingerprint) ==
    IF stored_content_hash = current_content_hash
    THEN VerificationResult("VERIFIED",
            CASE signature_valid = "True" -> "verified | Signature verified"
              [] signature_valid = "False" -> "verified | Signature INVALID"
              [] OTHER -> "verified",
            original_hash, current_content_hash, timestamp, version,
            signature_valid, key_fingerprint)
    ELSE VerificationResult("TAMPERED", "tampered",
            original_hash, current_content_hash, timestamp, version,
            "False", key_fingerprint)

\* What a call of verify_pdf gives: the result, or raised; the key directory
\* afterwards; whether get_current_content_hash was called and whether the
\* key store was used.
Outcome(result, ks, recomputed, touched) ==
    [raised |-> FALSE, result |-> result, keys |-> ks,
     recomputed |-> recomputed, touched |-> touched]
Raised(ks) ==
    [raised |-> TRUE, result |-> NoResult, keys |-> ks,
     recomputed |-> FALSE, touched |-> FALSE]

\* A variant without the legacy branch: a record with no content hash is
\* compared like any other.
VerifyRecord_NoLegacy(file, ks, metadata) ==
    LET original_hash == DictGet(metadata, "sentinel_hash")
        stored_content_hash == DictGet(metadata, "sentinel_content_hash")
        key_fingerprint == DictGet(metadata, "sentinel_key_fingerprint")
        current_content_hash == get_current_content_hash(file)
        sig == SignatureStep(ks, stored_content_hash,
                             DictGet(metadata, "sentinel_signature"), key_fingerprint)
    IN  IF ~Truthy(original_hash)
        THEN Outcome(BareResult("ERROR", "corrupted (missing hash)"), ks, FALSE, FALSE)
        ELSE IF current_content_hash = None
        THEN Outcome(BareResult("ERROR", "failed to calculate content hash"), ks, TRUE, FALSE)
        ELSE Outcome(CompareHashes(stored_content_hash, current_content_hash, sig.valid,
                                   original_hash, DictGet(metadata, "sentinel_timestamp"),
                                   DictGet(metadata, "sentinel_version"), key_fingerprint),
                     sig.keys, TRUE, sig.touched)

\* Lines 74-153 of verify_pdf, on the metadata dict found.
VerifyRecord(file, ks, metadata) ==
    LET original_hash == DictGet(metadata, "sentinel_hash")
        stored_content_hash == DictGet(metadata, "sentinel_content_hash")
        timestamp == DictGet(metadata, "sentinel_timestamp")
        version == DictGet(metadata, "sentinel_version")
        signature == DictGet(metadata, "sentinel_signature")
        key_fingerprint == DictGet(metadata, "sentinel_key_fingerprint")
        current_content_hash == get_current_content_hash(file)
        sig == SignatureStep(ks, stored_content_hash, signature, key_fingerprint)
    IN  IF ~Truthy(original_hash)
        THEN Outcome(BareResult("ERROR", "corrupted (missing hash)"), ks, FALSE, FALSE)
        ELSE IF ~Truthy(stored_content_hash)
        THEN Outcome(VerificationResult("VERIFIED", "legacy", original_hash, original_hash,
                                        timestamp, version, "None", None),
                     ks, FALSE, FALSE)
        ELSE IF current_content_hash = None
        THEN Outcome(BareResult("ERROR", "failed to calculate content hash"), ks, TRUE, FALSE)
        ELSE Outcome(CompareHashes(stored_content_hash, current_content_hash, sig.valid,
                                   original_hash, timestamp, version, key_fingerprint),
                     sig.keys, TRUE, sig.touched)

\* verify_pdf(pdf_path) on file system fsys with key directory ks
verify_pdf(fsys, ks, pdf_path) ==
    LET file == fsys[pdf_path]
        found == get_sentinel_metadata(file)
    IN  IF ~file.exists
        THEN Outcome(BareResult("ERROR", "file not found"), ks, FALSE, FALSE)
        ELSE IF Lower(pdf_path.suffix) # PdfSuffix
        THEN Outcome(BareResult("ERROR", "not a PDF"), ks, FALSE, FALSE)
        ELSE IF ~found.found
        THEN Outcome(BareResult("NOT_STAMPED", "not stamped"), ks, FALSE, FALSE)
        ELSE IF found.data.t # "dict"
        THEN Raised(ks)   \* metadata.get: AttributeError
        ELSE VerifyRecord(file, ks, found.data.d)

----------------------------------------------------------------------------
(* The documents and paths of the model *)

InputPath == [stem |-> <<"a">>, suffix |-> PdfSuffix]

\* The input path and the default output paths of up to MaxOps stampings.
RECURSIVE PathN(_)
PathN(n) == IF n = 0 THEN InputPath ELSE DefaultOutputPath(PathN(n - 1))

Paths == {PathN(n) : n \in 0..MaxOps}

LineSeqs(k) == UNION {[1..m -> UserLines] : m \in 0..k}

RECURSIVE TotalLines(_)
TotalLines(pages) ==
    IF pages = <<>> THEN 0 ELSE Len(Head(pages).lines) + TotalLines(Tail(pages))

\* Unstamped documents: the text documents of 1..MaxPages pages with at most
\* MaxLines lines in all, and two one-page documents that carry an image.
PlainPages == {Page(ls, <<>>, <<>>) : ls \in LineSeqs(MaxLines)}

TextDocs ==
    {pages \in UNION {[1..n -> PlainPages] : n \in 1..MaxPages} :
        TotalLines(pages) <= MaxLines}

ImageDocs == {<<Page(<<>>, <<>>, <<ImgDescriptor>>)>>, <<Page(<<LineHello>>, <<>>, <<ImgDescriptor>>)>>}

InputDocs == TextDocs \cup ImageDocs

\* One alteration of the visible text outside the seal: a line added,
\* removed, changed, or moved to another page.
InsertAt(ls, pos, line) == SubSeq(ls, 1, pos - 1) \o <<line>> \o SubSeq(ls, pos, Len(ls))
RemoveAt(ls, pos) == SubSeq(ls, 1, pos - 1) \o SubSeq(ls, pos + 1, Len(ls))

Added(pages) ==
    {[pages EXCEPT ![i].lines = InsertAt(@, pos, line)] :
        <<i, pos, line>> \in {t \in (1..Len(pages)) \X (1..(MaxLines + 1)) \X UserLines :
                                 /\ t[2] <= Len(pages[t[1]].lines) + 1
                                 /\ Len(pages[t[1]].lines) < MaxLines}}
Removed(pages) ==
    {[pages EXCEPT ![t[1]].lines = RemoveAt(@, t[2])] :
        t \in {t \in (1..Len(pages)) \X (1..MaxLines) : t[2] <= Len(pages[t[1]].lines)}}
Changed(pages) ==
    {[pages EXCEPT ![t[1]].lines[t[2]] = t[3]] :
        t \in {t \in (1..Len(pages)) \X (1..MaxLines) \X UserLines :
                  /\ t[2] <= Len(pages[t[1]].lines)
                  /\ pages[t[1]].lines[t[2]] # t[3]}}
\* the last line of page i becomes the first line of page i + 1, or back
MovedAcross(pages) ==
    {[pages EXCEPT ![i].lines = RemoveAt(@, Len(@)),
                   ![i + 1].lines = <<pages[i].lines[Len(pages[i].lines)]>> \o @] :
        i \in {i \in 1..(Len(pages) - 1) : pages[i].lines # <<>>}}
    \cup
    {[pages EXCEPT ![i].lines = Append(@, Head(pages[i + 1].lines)),
                   ![i + 1].lines = Tail(@)] :
        i \in {i \in 1..(Len(pages) - 1) : pages[i + 1].lines # <<>>}}

Alterations(pages) ==
    (Added(pages) \cup Removed(pages) \cup Changed(pages) \cup MovedAcross(pages)) \ {pages}

----------------------------------------------------------------------------
(* core/watcher.py: FolderWatcher, PDFWatchHandler and the observer thread *)

\* The observer is the watchdog library's: start() creates one observer per
\* session; its emitter puts every creation event of the watched folder on
\* an unbounded first-in first-out queue, and its one thread takes the
\* events off the queue and calls handler.on_created for each, one at a
\* time.  observer.stop() makes the thread end once the call it is in has
\* returned; events still queued are then not dispatched.

MaxSessions == 2   \* observers that start() creates in one behaviour
MaxEvents == 3     \* creation events that come from outside the application

Event(path, is_directory) == [path |-> path, is_directory |-> is_directory]
NoEvent == Event([stem |-> <<>>, suffix |-> <<>>], FALSE)

\* str(path)
PathStr(path) == path.stem \o path.suffix

\* What may arrive in the watched folder: a.pdf, b.PDF, a PDF whose name has
\* the output suffix inside it, a text file, and a directory named like a PDF.
StemStampedV2 == <<"a">> \o StampedSuffix \o <<"_", "v", "2">>
ArrivalPaths ==
    {InputPath,
     [stem |-> <<"b">>, suffix |-> <<".", "P", "D", "F">>],
     [stem |-> StemStampedV2, suffix |-> PdfSuffix],
     [stem |-> <<"a">>, suffix |-> <<".", "t", "x", "t">>]}
Arrivals ==
    {Event(p, FALSE) : p \in ArrivalPaths}
        \cup {Event([stem |-> <<"d">>, suffix |-> PdfSuffix], TRUE)}

\* A variant that never finds a path in the processed set.
AlreadyProcessed_Never(processed, path) == FALSE

\* Line 45 of on_created.
AlreadyProcessed(processed, path) == PathStr(path) \in processed

\* Line 49 of on_created.
IsStampedName(path) == Contains(path.stem, StampedSuffix)

\* Lines 35-50 of on_created: whether the event is ignored.
Skips(event, processed) ==
    IF event.is_directory THEN TRUE
    ELSE IF Lower(event.path.suffix) # PdfSuffix THEN TRUE
    ELSE IF AlreadyProcessed(processed, event.path) THEN TRUE
    ELSE IsStampedName(event.path)

\* A variant that enters the callback without recording the path.
MarkProcessed_Not(processed, path) == processed

\* Line 56 of on_created: the processed set when the callback is entered.
MarkProcessed(processed, path) == processed \cup {PathStr(path)}

\* An observer and its handler.  pc is where the observer thread is: "none"
\* (not created), "idle" (waiting on the queue), "grace" (in the sleep of
\* on_created), "callback" (in on_new_pdf) or "ended".  stopped: stop() was
\* called on it.  escaped: an exception left on_created.
NoObserver ==
    [pc |-> "none", stopped |-> FALSE, queue |-> <<>>, processed |-> {},
     cur |-> NoEvent, escaped |-> FALSE]

Alive(o) == o.pc \in {"idle", "grace", "callback"}

\* The emitter of an observer delivers events from start() until stop().
Receives(o) == o.pc # "none" /\ ~o.stopped

\* A variant whose observer has no queue: an event that comes while the
\* observer thread is in a callback is lost.
Enqueue_DropWhileBusy(obs, event) ==
    [s \in DOMAIN obs |->
        IF Receives(obs[s]) /\ obs[s].pc # "callback"
        THEN [obs[s] EXCEPT !.queue = Append(@, event)] ELSE obs[s]]

\* The queues after the file system reported the creation of event.
Enqueue(obs, event) ==
    [s \in DOMAIN obs |->
        IF Receives(obs[s]) THEN [obs[s] EXCEPT !.queue = Append(@, event)] ELSE obs[s]]

\* The ghost log: events that came from outside (count), observers created,
\* events put on each session's queue, on_created calls that have finished
\* (session, event, whether the callback was called, whether the path was in
\* the processed set when the call began, whether the callback raised),
\* callbacks entered,
\* paths stamped by callbacks, the sessions whose stop() has returned,
\* the paths for which an event came while on_created slept on that path, and
\* the paths for which an event came while a callback for another path ran.
NoLog ==
    [arrived |-> 0, sessions |-> 0, delivered |-> <<>>, handled |-> <<>>,
     calls |-> <<>>, stamped |-> <<>>, returned |-> {}, raced |-> {}, busy |-> {}]

NoWatching ==
    /\ watcher = [running |-> FALSE, observer |-> 0, api |-> "idle"]
    /\ observers = [s \in 1..MaxSessions |-> NoObserver]
    /\ wlog = NoLog

\* A variant that hands the processed set of the session before to the new
\* handler.
NewProcessed_Inherited(obs, s) == IF s > 1 THEN obs[s - 1].processed ELSE {}

\* PDFWatchHandler.__init__, line 31: self._processed = set()
NewProcessed(obs, s) == {}

\* FolderWatcher.start()
Start ==
    /\ watcher.api = "idle"
    /\ IF watcher.running
       THEN UNCHANGED watchVars
       ELSE /\ wlog.sessions < MaxSessions
            /\ \E s \in {wlog.sessions + 1} :
                  /\ observers' = [observers EXCEPT ![s] =
                                       [NoObserver EXCEPT !.pc = "idle",
                                                          !.processed = NewProcessed(observers, s)]]
                  /\ watcher' = [watcher EXCEPT !.running = TRUE, !.observer = s]
            /\ wlog' = [wlog EXCEPT !.sessions = @ + 1]
    /\ UNCHANGED coreVars

\* FolderWatcher.stop() up to the join: lines 106-110
StopBegin ==
    /\ watcher.api = "idle"
    /\ IF ~watcher.running \/ watcher.observer = 0
       THEN UNCHANGED watchVars
       ELSE /\ observers' = [observers EXCEPT ![watcher.observer].stopped = TRUE]
            /\ watcher' = [watcher EXCEPT !.api = "joining"]
            /\ UNCHANGED wlog
    /\ UNCHANGED coreVars

\* join(timeout=5) returns, and lines 111-112.  It returns when the thread
\* has ended, or after 5 seconds: the sleep of on_created is 0.5 s, so only a
\* thread that is in the callback can outlast the join.
StopReturn ==
    /\ watcher.api = "joining"
    /\ observers[watcher.observer].pc \in {"ended", "callback"}
    /\ wlog' = [wlog EXCEPT !.returned = @ \cup {watcher.observer}]
    /\ watcher' = [running |-> FALSE, observer |-> 0, api |-> "idle"]
    /\ UNCHANGED observers
    /\ UNCHANGED coreVars

\* A file or directory is created in the watched folder from outside.
FsCreate(event) ==
    /\ wlog.arrived < MaxEvents
    /\ \E s \in DOMAIN observers : Receives(observers[s])
    /\ observers' = Enqueue(observers, event)
    /\ wlog' = [wlog EXCEPT
                   !.arrived = @ + 1,
                   !.delivered = Append(@, event),
                   !.raced = @ \cup {event.path : s \in {s \in DOMAIN observers :
                                                            /\ observers[s].pc = "grace"
                                                            /\ observers[s].cur = event}},
                   !.busy = @ \cup {event.path : s \in {s \in DOMAIN observers :
                                                           /\ observers[s].pc = "callback"
                                                           /\ observers[s].cur.path # event.path}}]
    /\ UNCHANGED watcher
    /\ UNCHANGED coreVars

\* The observer thread of session s takes the next event and calls
\* on_created, which returns at once (lines 35-50) or starts its sleep.
Dispatch(s) ==
    /\ observers[s].pc = "idle"
    /\ ~observers[s].stopped
    /\ observers[s].queue # <<>>
    /\ \E event \in {Head(observers[s].queue)} :
          IF Skips(event, observers[s].processed)
          THEN /\ observers' = [observers EXCEPT ![s].queue = Tail(@)]
               /\ wlog' = [wlog EXCEPT !.handled =
                              Append(@, [s |-> s, event |-> event, called |-> FALSE,
                                         seen |-> AlreadyProcessed(observers[s].processed,
                                                                   event.path),
                                         raised |-> FALSE])]
          ELSE /\ observers' = [observers EXCEPT ![s].queue = Tail(@), ![s].pc = "grace",
                                                 ![s].cur = event]
               /\ UNCHANGED wlog
    /\ UNCHANGED watcher
    /\ UNCHANGED coreVars

\* Lines 53-57 of on_created: the sleep is over, the path is recorded and the
\* callback is entered.
GraceOver(s) ==
    /\ observers[s].pc = "grace"
    /\ observers' = [observers EXCEPT
                        ![s].processed = MarkProcessed(@, observers[s].cur.path),
                        ![s].pc = "callback"]
    /\ wlog' = [wlog EXCEPT !.calls = Append(@, [s |-> s, path |-> observers[s].cur.path])]
    /\ UNCHANGED watcher
    /\ UNCHANGED coreVars

\* A variant that forgets the path when the callback raised, so that the
\* file is tried again.
AfterCallback_RetryOnFailure(processed, path, outcome) ==
    IF outcome = "raised" THEN processed \ {PathStr(path)} ELSE processed

\* Line 57 of on_created is its last statement: nothing takes the path out
\* of the processed set when the callback has returned or raised.
AfterCallback(processed, path, outcome) == processed

\* The callback ends.  "stamped": it stamped the file to the default output
\* path, which is in the watched folder; "returned": it returned without
\* writing a file; "raised": it raised, which on_created does not catch, and
\* the observer thread ends or goes on (then = "ended" or "idle").
CallbackEnds(s, outcome, then) ==
    /\ observers[s].pc = "callback"
    /\ outcome = "raised" \/ then = "idle"
    /\ \E done \in {[observers EXCEPT ![s].pc = then, ![s].cur = NoEvent,
                                      ![s].processed =
                                          AfterCallback(@, observers[s].cur.path, outcome),
                                      ![s].escaped = @ \/ outcome = "raised"]} :
          observers' = IF outcome = "stamped"
                       THEN Enqueue(done, Event(DefaultOutputPath(observers[s].cur.path), FALSE))
                       ELSE done
    /\ wlog' = [wlog EXCEPT
                   !.handled = Append(@, [s |-> s, event |-> observers[s].cur, called |-> TRUE,
                                          seen |-> FALSE, raised |-> outcome = "raised"]),
                   !.stamped = IF outcome = "stamped"
                               THEN Append(@, observers[s].cur.path) ELSE @]
    /\ UNCHANGED watcher
    /\ UNCHANGED coreVars

\* The observer thread finds that it was stopped, and ends.
ThreadExit(s) ==
    /\ observers[s].pc = "idle"
    /\ observers[s].stopped
    /\ observers' = [observers EXCEPT ![s].pc = "ended"]
    /\ UNCHANGED <<watcher, wlog>>
    /\ UNCHANGED coreVars

----------------------------------------------------------------------------
(* The state machine *)

\* What the model remembers of the file at a path (ghost): whether a
\* stamp_pdf call wrote it, what that call returned, whether its source was
\* itself stamped, and whether it was verified or altered since.
NoHist ==
    [st |-> "none", restamp |-> FALSE, sealed |-> FALSE,
     hash |-> <<>>, content_hash |-> <<>>, timestamp |-> <<>>, key_fingerprint |-> <<>>]

\* The last call: op is "stamp", "verify" or "tamper"; input and path are the
\* paths it read and wrote or verified; hash, content_hash and timestamp are
\* what stamp_pdf returned, result what verify_pdf returned; recomputed and
\* touched tell whether verify_pdf called get_current_content_hash and the
\* key store, keysChanged whether the key directory differs after the call;
\* before is the ghost state of the file at path when the call was made,
\* prev the file that was at path and prevKeys the key directory before it;
\* args holds the arguments of a call of a function that takes no path, and
\* what it returned.
NoArgs == [content_hash |-> None, signature_b64 |-> None, public_key_pem |-> <<>>, returned |-> FALSE]
NoLast ==
    [op |-> "init", input |-> InputPath, path |-> InputPath, raised |-> FALSE,
     hash |-> <<>>, content_hash |-> <<>>, timestamp |-> <<>>,
     result |-> NoResult, recomputed |-> FALSE, touched |-> FALSE, keysChanged |-> FALSE,
     before |-> "none", prev |-> NoFile, prevKeys |-> NoKeys, args |-> NoArgs]

SettingsSet ==
    {[add_visual_seal |-> FALSE, seal_text |-> SEAL_TEXT_DEFAULT]}
        \cup {[add_visual_seal |-> TRUE, seal_text |-> t] : t \in SealTexts}

\* Before the first call: one unstamped document of docs at the input path,
\* an empty key directory, and the user's settings.
InitWith(docs) ==
    /\ \E pages \in docs :
          fs = [p \in Paths |-> IF p = InputPath THEN File(pages, NoKeywords) ELSE NoFile]
    /\ keys = NoKeys
    /\ clock \in {[date |-> d, tick |-> 0] : d \in 1..Len(Dates)}
    /\ settings \in SettingsSet
    /\ hist = [p \in Paths |-> NoHist]
    /\ ops = 0
    /\ last = NoLast
    /\ procs = NoProcs
    /\ NoWatching

Init == InitWith(InputDocs)

\* The Sentinel record a file carries, if its keyword field holds one.
RecordOf(file) ==
    IF file.exists /\ file.keywords.json /\ file.keywords.val.t = "dict"
    THEN file.keywords.val.d ELSE EmptyDict

\* stamp_pdf(input_path) with the default output path and the caller's seal options
Stamp(input_path, seal_position) ==
    \E output_path \in {DefaultOutputPath(input_path)} \cap Paths :
    \E r \in {stamp_pdf(fs, keys, clock, input_path, output_path,
                         settings.add_visual_seal, seal_position, settings.seal_text)} :
        /\ ops < MaxOps
        /\ ops' = ops + 1
        /\ fs' = r.fs
        /\ keys' = r.keys
        /\ clock' = [clock EXCEPT !.tick = @ + 1]
        /\ hist' = IF r.raised THEN hist
                   ELSE [hist EXCEPT ![output_path] =
                            [st |-> "stamped",
                             restamp |-> RecordOf(fs[input_path]) # EmptyDict,
                             sealed |-> settings.add_visual_seal,
                             hash |-> r.hash, content_hash |-> r.content_hash,
                             timestamp |-> r.timestamp,
                             key_fingerprint |-> get_key_fingerprint(r.keys.pub)]]
        /\ last' = [NoLast EXCEPT !.op = "stamp", !.input = input_path, !.path = output_path,
                                  !.raised = r.raised, !.hash = r.hash,
                                  !.content_hash = r.content_hash, !.timestamp = r.timestamp,
                                  !.before = hist[output_path].st]
        /\ UNCHANGED settings
        /\ UNCHANGED <<watchVars, procs>>

\* verify_pdf(pdf_path)
Verify(pdf_path) ==
    \E r \in {verify_pdf(fs, keys, pdf_path)} :
        /\ keys' = r.keys
        /\ last' = [NoLast EXCEPT !.op = "verify", !.input = pdf_path, !.path = pdf_path,
                                  !.raised = r.raised, !.result = r.result,
                                  !.recomputed = r.recomputed, !.touched = r.touched,
                                  !.keysChanged = (r.keys # keys),
                                  !.before = hist[pdf_path].st]
        /\ hist' = IF ~r.raised /\ r.result.status = "VERIFIED" /\ hist[pdf_path].st = "stamped"
                   THEN [hist EXCEPT ![pdf_path].st = "verified"]
                   ELSE hist
        /\ UNCHANGED <<fs, clock, settings, ops>>
        /\ UNCHANGED <<watchVars, procs>>

\* Someone edits the text of a stamped document that verify_pdf has reported
\* VERIFIED, leaving the seal and the metadata alone.
Tamper(pdf_path) ==
    /\ hist[pdf_path].st = "verified"
    /\ ops < MaxOps
    /\ ops' = ops + 1
    /\ \E pages \in Alterations(fs[pdf_path].pages) :
          fs' = [fs EXCEPT ![pdf_path].pages = pages]
    /\ hist' = [hist EXCEPT ![pdf_path].st = "altered"]
    /\ last' = [NoLast EXCEPT !.op = "tamper", !.input = pdf_path, !.path = pdf_path,
                              !.before = "verified"]
    /\ UNCHANGED <<keys, clock, settings>>
    /\ UNCHANGED <<watchVars, procs>>

\* The documents are taken to an installation whose key directory is still
\* empty; the key pair it will generate is one no installation had before.
NewInstallation ==
    /\ keys.privExists /\ keys.pubExists
    /\ ops < MaxOps
    /\ ops' = ops + 1
    /\ keys' = [NoKeys EXCEPT !.gen = keys.gen]
    /\ last' = [NoLast EXCEPT !.op = "move"]
    /\ UNCHANGED <<fs, clock, settings, hist>>
    /\ UNCHANGED <<watchVars, procs>>

Next ==
    \/ \E p \in Paths, pos \in SealPositions : Stamp(p, pos)
    \/ \E p \in Paths : fs[p].exists /\ Verify(p)
    \/ \E p \in Paths : Tamper(p)
    \/ NewInstallation

Spec == Init /\ [][Next]_vars

\* The same machine started on a few sample documents only.
SampleDocs ==
    {<<Page(<<LineHello>>, <<>>, <<>>)>>,
     <<Page(<<LineHello>>, <<>>, <<>>), Page(<<LineUserDate>>, <<>>, <<ImgDescriptor>>)>>}

InitSample == InitWith(SampleDocs)

SpecSample == InitSample /\ [][Next]_vars

----------------------------------------------------------------------------
(* verify_pdf on arbitrary documents: any keyword field, any key directory *)

UpperPath == [stem |-> <<"a">>, suffix |-> <<".", "P", "D", "F">>]
TextPath == [stem |-> <<"a">>, suffix |-> <<".", "t", "x", "t">>]
MetaPaths == {InputPath, UpperPath, TextPath}

\* The content hash of the sample text and another digest.
SampleContentHash == _calculate_content_hash(<<Page(<<LineHello>>, <<>>, <<>>)>>)
OtherContentHash == _calculate_content_hash(<<Page(<<LineHelloBang>>, <<>>, <<>>)>>)
SampleFileHash == Digest(<<"a", "b", "c">>)
SampleTimestamp == IsoFormat([date |-> 1, tick |-> 0])

\* The sample text, unsealed and with the default seal on it.
MetaDocs ==
    {<<Page(<<LineHello>>, <<>>, <<>>)>>,
     <<Page(<<LineHello>>, SealLines(SampleFileHash, SampleTimestamp, SEAL_TEXT_DEFAULT), <<>>)>>}

MetaDicts ==
    {[k \in MetadataKeys |->
        CASE k = "sentinel_hash" -> h
          [] k = "sentinel_content_hash" -> c
          [] k = "sentinel_timestamp" -> IF dated THEN Str(SampleTimestamp) ELSE Missing
          [] k = "sentinel_version" -> IF dated THEN Str(SENTINEL_VERSION) ELSE Missing
          [] k = "sentinel_signature" -> g
          [] OTHER -> f] :
        h \in {Missing, Str(<<>>), Str(SampleFileHash), Num(5)},
        c \in {Missing, Str(<<>>), Str(SampleContentHash), Str(OtherContentHash), Num(5)},
        g \in {Missing, Str(SignatureOf(PrivPem(1), SampleContentHash)),
               Str(SignatureOf(PrivPem(1), OtherContentHash)),
               Str(SignatureOf(PrivPem(2), SampleContentHash)), Str(<<"x">>)},
        f \in {Missing, Str(get_key_fingerprint(PubPem(1))),
               Str(get_key_fingerprint(PubPem(2))), Str(<<>>)},
        dated \in BOOLEAN}

MetaKeywords ==
    {JsonDumps(JDict(d)) : d \in MetaDicts}
        \cup {NoKeywords, PlainKeywords(LineHello),
              JsonDumps(JStr(LineHello)), JsonDumps(JStr(KeySentinelHash \o <<"s">>)),
              JsonDumps(JList(<<LineHello>>)), JsonDumps(JList(<<LineHello, KeySentinelHash>>)),
              JsonDumps(JNum(5))}

StampedKeywords ==
    JsonDumps(JDict(SentinelData(SampleFileHash, SampleContentHash, SampleTimestamp,
                                 SignatureOf(PrivPem(1), SampleContentHash),
                                 get_key_fingerprint(PubPem(1)))))
LegacyKeywords ==
    JsonDumps(JDict([EmptyDict EXCEPT !["sentinel_hash"] = Str(SampleFileHash)]))

\* Key directories: this installation holds key pair 1, or key pair 2, or no
\* key yet (the pair it would generate is a new one).
MetaKeys == {KeyPair(1), KeyPair(2), [NoKeys EXCEPT !.gen = 2]}

\* The file under verification: where it is, what it is, and the key directory.
MetaCases ==
    {[path |-> InputPath, file |-> File(pages, kw), keys |-> ks] :
        pages \in MetaDocs, kw \in MetaKeywords, ks \in MetaKeys}
    \cup
    {[path |-> p, file |-> File(CHOOSE pages \in MetaDocs : pages[1].seal = <<>>, kw),
      keys |-> KeyPair(1)] :
        p \in {UpperPath, TextPath}, kw \in {StampedKeywords, NoKeywords}}
    \cup
    {[path |-> InputPath,
      file |-> [File(CHOOSE pages \in MetaDocs : pages[1].seal = <<>>, kw)
                   EXCEPT !.readable = rd],
      keys |-> KeyPair(1)] :
        rd \in {"badpage", "notpdf"}, kw \in {StampedKeywords, LegacyKeywords, NoKeywords}}

InitMeta ==
    /\ \E c \in MetaCases :
          /\ fs = [p \in MetaPaths |-> IF p = c.path THEN c.file ELSE NoFile]
          /\ keys = c.keys
    /\ clock = [date |-> 1, tick |-> 1]
    /\ settings \in {[add_visual_seal |-> TRUE, seal_text |-> SEAL_TEXT_DEFAULT]}
    /\ hist = [p \in MetaPaths |-> NoHist]
    /\ ops = 0
    /\ last = NoLast
    /\ procs = NoProcs
    /\ NoWatching

NextMeta == \E p \in MetaPaths : Verify(p)

SpecMeta == InitMeta /\ [][NextMeta]_vars

----------------------------------------------------------------------------
(* Properties of stamping followed by verification *)

\* The fingerprint of the local installation's key, if it holds one.
HasLocalKey(ks) == ks.privExists /\ ks.pubExists
LocalFingerprint(ks) == Str(get_key_fingerprint(ks.pub))

\* C1: round trip.  verify_pdf on a file that stamp_pdf wrote, on the
\* installation that stamped it and with nothing done to the file since,
\* returns VERIFIED with current_hash equal to the content_hash that
\* stamp_pdf returned, whatever the input document and the seal options.
C1_RoundTrip ==
    (/\ last.op = "verify"
     /\ last.before = "stamped"
     /\ HasLocalKey(keys)
     /\ LocalFingerprint(keys) = Str(hist[last.path].key_fingerprint))
    => /\ ~last.raised
       /\ last.result.status = "VERIFIED"
       /\ last.result.current_hash = Str(hist[last.path].content_hash)

\* C2: every line that _add_visual_seal puts on page 0 is a line that
\* get_current_content_hash leaves out, so the stamped file's recomputed
\* content hash is that of the same pages without the seal.
C2_SealLinesExcluded ==
    (/\ last.op = "stamp"
     /\ ~last.raised
     /\ hist[last.path].sealed)
    => /\ \A i \in 1..Len(SealLines(last.hash, last.timestamp, settings.seal_text)) :
             IsSealLine(SealLines(last.hash, last.timestamp, settings.seal_text)[i])
       /\ get_current_content_hash(fs[last.path])
             = get_current_content_hash(File(fs[last.input].pages, NoKeywords))

\* C3: tamper detection.  After a stamped file was reported VERIFIED and its
\* visible text outside the seal was then altered (a line added, removed,
\* changed or moved, on any page or across a page boundary), verify_pdf
\* returns TAMPERED.
C3_TamperDetected ==
    (last.op = "verify" /\ last.before = "altered")
    => /\ ~last.raised
       /\ last.result.status = "TAMPERED"

\* C10: re-stamping.  After stamp_pdf on an already stamped file, the
\* keyword field of the output is the JSON of one record, the one this call
\* built (nothing of the input's record is kept), and verify_pdf on such a
\* file reports the hash, timestamp, version and key fingerprint of that
\* newest record.
C10_RestampReplacesRecord ==
    /\ (/\ last.op = "stamp"
        /\ ~last.raised
        /\ hist[last.path].restamp)
       => /\ fs[last.path].keywords
                = JsonDumps(JDict(SentinelData(last.hash, last.content_hash, last.timestamp,
                                               SignatureOf(keys.priv, last.content_hash),
                                               get_key_fingerprint(keys.pub))))
          /\ RecordOf(fs[last.path])["sentinel_hash"]
                # RecordOf(fs[last.input])["sentinel_hash"]
          /\ RecordOf(fs[last.path])["sentinel_timestamp"]
                # RecordOf(fs[last.input])["sentinel_timestamp"]
    /\ (/\ last.op = "verify"
        /\ hist[last.path].restamp)
       => /\ ~last.raised
          /\ last.result.status \in {"VERIFIED", "TAMPERED"}
          /\ last.result.original_hash = Str(hist[last.path].hash)
          /\ last.result.timestamp = Str(hist[last.path].timestamp)
          /\ last.result.version = Str(SENTINEL_VERSION)
          /\ last.result.key_fingerprint = Str(hist[last.path].key_fingerprint)

\* A re-stamped file is verified and the hash reported is not the one in the
\* record of the file it was stamped from.
C10_Witness ==
    /\ last.op = "verify"
    /\ ~last.raised
    /\ last.path = PathN(2)
    /\ hist[last.path].restamp
    /\ last.result.original_hash = Str(hist[last.path].hash)
    /\ last.result.original_hash # RecordOf(fs[PathN(1)])["sentinel_hash"]
    /\ RecordOf(fs[PathN(1)]) # EmptyDict

----------------------------------------------------------------------------
(* Properties of verify_pdf on arbitrary documents *)

\* The last call was verify_pdf on an existing, readable .pdf file whose
\* keyword field holds a JSON object; Rec is that object.
VerifiedRecordFile ==
    /\ last.op = "verify"
    /\ fs[last.path].exists
    /\ Lower(last.path.suffix) = PdfSuffix
    /\ fs[last.path].readable # "notpdf"
    /\ fs[last.path].keywords.json
    /\ fs[last.path].keywords.val.t = "dict"
Rec == RecordOf(fs[last.path])

\* The record carries a signature, and its key fingerprint is not the
\* fingerprint of the local installation's key.
ForeignSignedRecord ==
    /\ VerifiedRecordFile
    /\ Truthy(Rec["sentinel_signature"])
    /\ (HasLocalKey(keys) => Rec["sentinel_key_fingerprint"] # LocalFingerprint(keys))

\* C4: verify_pdf is total.  Whatever the path and the keyword field hold,
\* the call returns a result whose status is one of the four, and raises
\* nothing.
C4_VerifyTotal ==
    last.op = "verify"
    => /\ ~last.raised
       /\ last.result.status \in {"VERIFIED", "TAMPERED", "NOT_STAMPED", "ERROR"}

\* C5 as the specification states it: a record that carries a signature and
\* a key fingerprint other than the local one gives signature_valid unknown,
\* whatever the status.
C5_CrossMachineUnknown ==
    ForeignSignedRecord => (~last.raised /\ last.result.signature_valid = "None")

\* C5, amended: such a record never gives signature_valid True; it gives
\* unknown unless the status is TAMPERED, and then it gives False.
C5_CrossMachineUnknownUnlessTampered ==
    ForeignSignedRecord
    => /\ ~last.raised
       /\ last.result.signature_valid
             = (IF last.result.status = "TAMPERED" THEN "False" ELSE "None")

\* A signed record of another installation's key on a document whose content
\* matches: the key store was consulted and the signature left unknown.
C5_Witness ==
    /\ ForeignSignedRecord
    /\ Truthy(Rec["sentinel_key_fingerprint"])
    /\ last.touched
    /\ last.result.status = "VERIFIED"
    /\ last.result.signature_valid = "None"

\* C6 as the specification states it: a VERIFIED result has signature_valid
\* True or unknown, never False.
C6_VerifiedNeverInvalid ==
    (last.op = "verify" /\ ~last.raised /\ last.result.status = "VERIFIED")
    => last.result.signature_valid \in {"True", "None"}

\* C6, amended: a VERIFIED result carries signature_valid as the signature
\* step computed it.  It is False exactly when the record's key fingerprint
\* is the local one and verify_signature rejects the signature, and then the
\* message says so; it is True exactly when verify_signature accepts it.
C6_VerifiedSignatureAsComputed ==
    (last.op = "verify" /\ ~last.raised /\ last.result.status = "VERIFIED")
    => LET local == /\ Truthy(Rec["sentinel_content_hash"])
                    /\ Truthy(Rec["sentinel_signature"])
                    /\ HasLocalKey(keys)
                    /\ Rec["sentinel_key_fingerprint"] = LocalFingerprint(keys)
           accepted == verify_signature(Rec["sentinel_content_hash"],
                                        Rec["sentinel_signature"], keys.pub)
       IN  /\ (last.result.signature_valid = "False") = (local /\ ~accepted)
           /\ (last.result.signature_valid = "True") = (local /\ accepted)
           /\ (last.result.signature_valid = "False")
                 = (last.result.message = "verified | Signature INVALID")

\* The content matches, the record names the local key, and its signature
\* is not one by that key over the stored content hash.
C6_Witness ==
    /\ last.op = "verify"
    /\ last.result.status = "VERIFIED"
    /\ last.result.signature_valid = "False"
    /\ last.result.message = "verified | Signature INVALID"
    /\ Rec["sentinel_key_fingerprint"] = LocalFingerprint(keys)

\* C7: a TAMPERED result has signature_valid False, whatever the signature
\* step computed.
C7_TamperedForcesInvalid ==
    (last.op = "verify" /\ ~last.raised /\ last.result.status = "TAMPERED")
    => last.result.signature_valid = "False"

\* The stored content hash is not the document's, and the record's signature
\* is a valid one by the local key over the stored content hash.
C7_Witness ==
    /\ last.op = "verify"
    /\ last.result.status = "TAMPERED"
    /\ last.result.signature_valid = "False"
    /\ HasLocalKey(keys)
    /\ Rec["sentinel_key_fingerprint"] = LocalFingerprint(keys)
    /\ verify_signature(Rec["sentinel_content_hash"], Rec["sentinel_signature"], keys.pub)

\* C8: a record that has every field but sentinel_hash makes verify_pdf
\* return ERROR.
C8_MissingHashIsError ==
    (/\ VerifiedRecordFile
     /\ Rec["sentinel_hash"] = Missing
     /\ \A k \in MetadataKeys \ {"sentinel_hash"} : Rec[k] # Missing)
    => (~last.raised /\ last.result.status = "ERROR")

\* C9: legacy records.  A record with a sentinel_hash and no
\* sentinel_content_hash gives VERIFIED with the legacy message and
\* signature_valid unknown; get_current_content_hash is not called, the key
\* store is not used and the key directory is as it was.
C9_LegacyVerified ==
    (/\ VerifiedRecordFile
     /\ Truthy(Rec["sentinel_hash"])
     /\ ~Truthy(Rec["sentinel_content_hash"]))
    => /\ ~last.raised
       /\ last.result.status = "VERIFIED"
       /\ last.result.message = "legacy"
       /\ last.result.signature_valid = "None"
       /\ last.result.original_hash = Rec["sentinel_hash"]
       /\ ~last.recomputed
       /\ ~last.touched
       /\ ~last.keysChanged

\* A legacy record that carries a signature and names the local key: the
\* signature step would have run had the record had a content hash.
C9_Witness ==
    /\ VerifiedRecordFile
    /\ Rec["sentinel_content_hash"] = Missing
    /\ Truthy(Rec["sentinel_signature"])
    /\ HasLocalKey(keys)
    /\ Rec["sentinel_key_fingerprint"] = LocalFingerprint(keys)
    /\ last.result.status = "VERIFIED"
    /\ last.result.message = "legacy"

----------------------------------------------------------------------------
(* The folder watcher as a machine of its own *)

InitWatch ==
    /\ fs = [p \in Paths |-> NoFile]
    /\ keys = NoKeys
    /\ clock = [date |-> 1, tick |-> 0]
    /\ settings = [add_visual_seal |-> TRUE, seal_text |-> SEAL_TEXT_DEFAULT]
    /\ hist = [p \in Paths |-> NoHist]
    /\ ops = 0
    /\ last = NoLast
    /\ procs = NoProcs
    /\ NoWatching

CallbackOutcomes == {"stamped", "returned", "raised"}

NextWatch ==
    \/ Start
    \/ StopBegin
    \/ StopReturn
    \/ \E event \in Arrivals : FsCreate(event)
    \/ \E s \in 1..MaxSessions : Dispatch(s)
    \/ \E s \in 1..MaxSessions : GraceOver(s)
    \/ \E s \in 1..MaxSessions, outcome \in CallbackOutcomes, then \in {"idle", "ended"} :
          CallbackEnds(s, outcome, then)
    \/ \E s \in 1..MaxSessions : ThreadExit(s)

SpecWatch == InitWatch /\ [][NextWatch]_vars

\* One session, from the return of start() on: events arrive and the
\* observer thread handles them; nobody calls start() or stop().
InitRun ==
    /\ fs = [p \in Paths |-> NoFile]
    /\ keys = NoKeys
    /\ clock = [date |-> 1, tick |-> 0]
    /\ settings = [add_visual_seal |-> TRUE, seal_text |-> SEAL_TEXT_DEFAULT]
    /\ hist = [p \in Paths |-> NoHist]
    /\ ops = 0
    /\ last = NoLast
    /\ procs = NoProcs
    /\ watcher = [running |-> TRUE, observer |-> 1, api |-> "idle"]
    /\ observers = [s \in 1..MaxSessions |->
                       IF s = 1 THEN [NoObserver EXCEPT !.pc = "idle"] ELSE NoObserver]
    /\ wlog = [NoLog EXCEPT !.sessions = 1]

NextRun ==
    \/ \E event \in Arrivals : FsCreate(event)
    \/ Dispatch(1)
    \/ GraceOver(1)
    \/ \E outcome \in CallbackOutcomes, then \in {"idle", "ended"} : CallbackEnds(1, outcome, then)

SpecRun == InitRun /\ [][NextRun]_vars

\* The same session with a scheduler: the observer thread is a thread of its
\* own, so it takes a queued event when it is idle, its 0.5 s sleep ends, and
\* a callback that blocks comes to an end.
SpecRunFair ==
    /\ InitRun
    /\ [][NextRun]_vars
    /\ WF_vars(Dispatch(1))
    /\ WF_vars(GraceOver(1))
    /\ WF_vars(\E outcome \in CallbackOutcomes, then \in {"idle", "ended"} :
                  CallbackEnds(1, outcome, then))

----------------------------------------------------------------------------
(* Properties of the folder watcher *)

\* How often session s entered the callback for path, and how many
\* on_created calls of session s for an event of that path have finished.
CallsFor(s, path) ==
    Cardinality({i \in 1..Len(wlog.calls) : wlog.calls[i] = [s |-> s, path |-> path]})
HandledFor(s, path) ==
    Cardinality({i \in 1..Len(wlog.handled) :
                    wlog.handled[i].s = s /\ wlog.handled[i].event.path = path})

\* The paths of the events delivered so far, the callbacks' outputs included.
SeenPaths ==
    {wlog.delivered[i].path : i \in 1..Len(wlog.delivered)}
        \cup {DefaultOutputPath(wlog.stamped[i]) : i \in 1..Len(wlog.stamped)}

\* C11: watcher dedup.  In one session the callback is entered at most once
\* for a path, however many creation events came for it, and exactly once
\* as soon as one on_created call for a path that passes the filter is over.
C11_CallbackOncePerPath ==
    \A s \in 1..MaxSessions : \A path \in SeenPaths :
        /\ CallsFor(s, path) <= 1
        /\ (\E i \in 1..Len(wlog.handled) :
                /\ wlog.handled[i].s = s
                /\ wlog.handled[i].event.path = path
                /\ ~Skips(wlog.handled[i].event, {}))
           => CallsFor(s, path) = 1

\* Two creation events for a.pdf have been handled in the session, and the
\* callback was entered once.
C11_Witness ==
    /\ HandledFor(1, InputPath) >= 2
    /\ CallsFor(1, InputPath) = 1

\* C12: the path is in the processed set whenever the callback is running,
\* and a creation event for the same path that arrives while on_created is
\* in its sleep, or in the callback, does not lead to a second callback.
C12_ProcessedBeforeCallback ==
    /\ \A s \in 1..MaxSessions :
          observers[s].pc = "callback"
          => AlreadyProcessed(observers[s].processed, observers[s].cur.path)
    /\ \A s \in 1..MaxSessions : \A i, j \in 1..Len(wlog.calls) :
          (wlog.calls[i] = wlog.calls[j]) => i = j

\* An on_created call for a path that was already queued again while the
\* first call for it was in its sleep has ended without a callback.
C12_Witness ==
    \E i \in 1..Len(wlog.handled) :
        /\ ~wlog.handled[i].called
        /\ wlog.handled[i].event.path = InputPath
        /\ InputPath \in wlog.raced
        /\ CallsFor(1, InputPath) = 1

\* The session is quiet: the observer thread waits on an empty queue, no
\* callback raised, and every callback stamped its file.
QuietSession(s) ==
    /\ observers[s].pc = "idle"
    /\ observers[s].queue = <<>>
    /\ ~observers[s].escaped
    /\ Len(wlog.stamped) = Len(wlog.calls)

StampedCount(path) == Cardinality({i \in 1..Len(wlog.stamped) : wlog.stamped[i] = path})

\* C13: exactly-once stamping without self-triggering.  With a callback
\* that stamps every file it is given to the default output path, no
\* callback is ever entered for an output file, and once the session is
\* quiet every PDF file that arrived from outside has been stamped exactly
\* once.
C13_EachArrivalStampedOnce ==
    /\ \A i \in 1..Len(wlog.calls) : \A j \in 1..Len(wlog.stamped) :
          wlog.calls[i].path # DefaultOutputPath(wlog.stamped[j])
    /\ QuietSession(1)
       => \A i \in 1..Len(wlog.delivered) :
             (~wlog.delivered[i].is_directory /\ Lower(wlog.delivered[i].path.suffix) = PdfSuffix)
             => StampedCount(wlog.delivered[i].path) = 1

\* s.endswith(p)
EndsWith(s, p) == LastN(s, Len(p)) = p

\* C14: watcher filter.  An on_created call enters the callback if and only
\* if the entry is not a directory, its extension is .pdf, its stem does not
\* end in "_stamped" and its path is not in the processed set.
C14_FilterIff ==
    \A i \in 1..Len(wlog.handled) :
        wlog.handled[i].called
        = (/\ ~wlog.handled[i].event.is_directory
           /\ Lower(wlog.handled[i].event.path.suffix) = PdfSuffix
           /\ ~EndsWith(wlog.handled[i].event.path.stem, StampedSuffix)
           /\ ~wlog.handled[i].seen)

\* C15: an exception raised by the callback is caught inside the watcher and
\* does not stop monitoring.  No exception leaves on_created, and the
\* observer thread of a session ends only after stop() was called on it.
C15_CallbackErrorCaught ==
    \A s \in 1..MaxSessions :
        /\ ~observers[s].escaped
        /\ observers[s].pc = "ended" => observers[s].stopped

ActiveObservers == {s \in 1..MaxSessions : Alive(observers[s])}

QualifyingArrivals == {event \in Arrivals : ~Skips(event, {})}

\* The paths of a sequence of events that pass the filter, each path once, in
\* the order of its first event.
RECURSIVE FirstPaths(_)
FirstPaths(events) ==
    IF events = <<>> THEN <<>>
    ELSE LET before == FirstPaths(SubSeq(events, 1, Len(events) - 1))
             event == events[Len(events)]
         IN  IF Skips(event, {}) \/ \E i \in 1..Len(before) : before[i] = event.path
             THEN before
             ELSE Append(before, event.path)

\* The paths for which session 1 entered the callback, in order.
CalledPaths == [i \in 1..Len(wlog.calls) |-> wlog.calls[i].path]

----------------------------------------------------------------------------
(* stamp_pdf and the key store when a step fails *)

HexDigits == {"0", "1", "2", "3", "4", "5", "6", "7", "8", "9", "a", "b", "c", "d", "e", "f", "A", "B", "C", "D", "E", "F"}

ColorDefault == <<"#", "8", "8", "A", "9", "C", "3">>
ColorShort == <<"#", "F", "F", "F">>
ColorName == <<"b", "l", "u", "e">>
SealColors == {ColorDefault, ColorShort, ColorName}

\* hex_color.lstrip('#')
RECURSIVE LStripHash(_)
LStripHash(s) == IF s # <<>> /\ Head(s) = "#" THEN LStripHash(Tail(s)) ELSE s

\* s[a:b]
Slice(s, a, b) == SubSeq(s, a + 1, IF b < Len(s) THEN b ELSE Len(s))

\* int(hex_color[i:i+2], 16) raises ValueError
IntHexRaises(s) == s = <<>> \/ \E k \in 1..Len(s) : s[k] \notin HexDigits

\* hex_to_rgb(seal_color) raises
HexToRgbRaises(seal_color) ==
    \E i \in {0, 2, 4} : IntHexRaises(Slice(LStripHash(seal_color), i, i + 2))

\* What doc.save(str(output_path)) can do: write the whole file; raise before
\* the file is opened for writing; raise after it has written part of it.
SaveOutcomes == {"saved", "refused", "broken"}

\* The file a save that broke off leaves at the output path.
PartialFile == [exists |-> TRUE, readable |-> "notpdf", pages |-> <<>>, keywords |-> NoKeywords]

\* stamp_pdf with its seal colour and the outcome of its doc.save call.
stamp_pdf_io(fsys, ks, now, input_path, output_path, add_visual_seal, seal_position, seal_color, seal_text, save) ==
    LET r == stamp_pdf(fsys, ks, now, input_path, output_path, add_visual_seal, seal_position, seal_text)
        failed(fs1) == [r EXCEPT !.raised = TRUE, !.fs = fs1, !.hash = <<>>,
                                 !.content_hash = <<>>, !.timestamp = <<>>]
    IN  IF r.raised THEN r
        ELSE IF add_visual_seal /\ Len(fsys[input_path].pages) > 0 /\ HexToRgbRaises(seal_color)
             THEN failed(fsys)
        ELSE IF save = "refused" THEN failed(fsys)
        ELSE IF save = "broken" THEN failed([fsys EXCEPT ![output_path] = PartialFile])
        ELSE r

\* stamp_pdf(input_path, seal_color=...) with the default output path
StampIO(input_path, seal_color, save) ==
    \E output_path \in {DefaultOutputPath(input_path)} \cap Paths :
    \E r \in {stamp_pdf_io(fs, keys, clock, input_path, output_path, settings.add_visual_seal,
                           "top-right", seal_color, settings.seal_text, save)} :
        /\ ops < MaxOps
        /\ ops' = ops + 1
        /\ fs' = r.fs
        /\ keys' = r.keys
        /\ clock' = [clock EXCEPT !.tick = @ + 1]
        /\ last' = [NoLast EXCEPT !.op = "stamp", !.input = input_path, !.path = output_path,
                                  !.raised = r.raised, !.hash = r.hash,
                                  !.content_hash = r.content_hash, !.timestamp = r.timestamp,
                                  !.keysChanged = (r.keys # keys),
                                  !.prev = fs[output_path], !.prevKeys = keys]
        /\ UNCHANGED <<settings, hist>>
        /\ UNCHANGED <<watchVars, procs>>

\* get_or_create_keys()
GetOrCreateKeys ==
    \E r \in {get_or_create_keys(keys)} :
        /\ ops < MaxOps
        /\ ops' = ops + 1
        /\ keys' = r.keys
        /\ last' = [NoLast EXCEPT !.op = "keys", !.keysChanged = (r.keys # keys),
                                  !.prevKeys = keys]
        /\ UNCHANGED <<fs, clock, settings, hist>>
        /\ UNCHANGED <<watchVars, procs>>

\* The files that may lie at the input path: a document, a file that is no
\* PDF, a PDF whose text cannot be extracted, or nothing.
FaultInputs ==
    {File(pages, NoKeywords) : pages \in SampleDocs}
        \cup {[File(<<>>, NoKeywords) EXCEPT !.readable = "notpdf"],
              [File(<<Page(<<LineHello>>, <<>>, <<>>)>>, NoKeywords) EXCEPT !.readable = "badpage"],
              NoFile}

\* The key directory: empty, a key pair, only one of its two files, or a
\* private key file that does not parse.
KeyStates ==
    {NoKeys,
     KeyPair(1),
     [KeyPair(1) EXCEPT !.pubExists = FALSE, !.pub = <<>>],
     [KeyPair(1) EXCEPT !.privExists = FALSE, !.priv = <<>>],
     [KeyPair(1) EXCEPT !.priv = <<"x">>]}

InitFault ==
    /\ \E file \in FaultInputs : fs = [p \in Paths |-> IF p = InputPath THEN file ELSE NoFile]
    /\ keys \in KeyStates
    /\ clock = [date |-> 1, tick |-> 0]
    /\ settings \in {[add_visual_seal |-> b, seal_text |-> SEAL_TEXT_DEFAULT] : b \in BOOLEAN}
    /\ hist = [p \in Paths |-> NoHist]
    /\ ops = 0
    /\ last = NoLast
    /\ procs = NoProcs
    /\ NoWatching

NextFault ==
    \/ \E color \in SealColors, save \in SaveOutcomes : StampIO(InputPath, color, save)
    \/ GetOrCreateKeys

SpecFault == InitFault /\ [][NextFault]_vars

\* C19: stamp_pdf never leaves a partial output.  After a stamp_pdf call
\* that raised, the file at the output path is what it was before the call
\* (absent or unchanged).
C19_NoPartialOutput ==
    (last.op = "stamp" /\ last.raised) => fs[last.path] = last.prev

\* C20: the key store never overwrites key material.  After a call of
\* get_or_create_keys, a key file that existed before the call has the
\* content it had, and a key directory that held both files is unchanged.
C20_KeysNeverOverwritten ==
    last.op = "keys"
    => /\ last.prevKeys.privExists => (keys.privExists /\ keys.priv = last.prevKeys.priv)
       /\ last.prevKeys.pubExists => (keys.pubExists /\ keys.pub = last.prevKeys.pub)
       /\ HasLocalKey(last.prevKeys) => keys = last.prevKeys

----------------------------------------------------------------------------
(* get_or_create_keys run by several processes on one key directory *)

\* Line 67: private_path.exists() and public_path.exists()
KeysPresent(ks) == ks.privExists /\ ks.pubExists

\* Lines 63-67 and 73: process p enters get_or_create_keys, tests the two
\* paths and, if one is missing, generates a pair.
KeysCheck(p) ==
    /\ procs[p].pc = "out"
    /\ procs[p].calls < MaxCalls
    /\ IF KeysPresent(keys)
       THEN /\ procs' = [procs EXCEPT ![p] = [NoProc EXCEPT !.pc = "read_priv",
                                                             !.calls = procs[p].calls + 1]]
            /\ UNCHANGED keys
       ELSE /\ procs' = [procs EXCEPT ![p] = [pc |-> "write_priv",
                                              priv |-> PrivPem(keys.gen + 1),
                                              pub |-> PubPem(keys.gen + 1),
                                              calls |-> procs[p].calls + 1,
                                              returned |-> FALSE]]
            /\ keys' = [keys EXCEPT !.gen = @ + 1]
    /\ UNCHANGED <<fs, clock, settings, hist, ops, last>>
    /\ UNCHANGED watchVars

\* Lines 68-69: read the private file.
KeysReadPriv(p) ==
    /\ procs[p].pc = "read_priv"
    /\ procs' = [procs EXCEPT ![p].pc = "read_pub", ![p].priv = keys.priv]
    /\ UNCHANGED <<fs, keys, clock, settings, hist, ops, last>>
    /\ UNCHANGED watchVars

\* Lines 70-71 and 79: read the public file and return.
KeysReadPub(p) ==
    /\ procs[p].pc = "read_pub"
    /\ procs' = [procs EXCEPT ![p].pc = "out", ![p].pub = keys.pub, ![p].returned = TRUE]
    /\ UNCHANGED <<fs, keys, clock, settings, hist, ops, last>>
    /\ UNCHANGED watchVars

\* Lines 74-75: open(private_path, 'wb') and write.
KeysWritePriv(p) ==
    /\ procs[p].pc = "write_priv"
    /\ keys' = [keys EXCEPT !.privExists = TRUE, !.priv = procs[p].priv]
    /\ procs' = [procs EXCEPT ![p].pc = "write_pub"]
    /\ UNCHANGED <<fs, clock, settings, hist, ops, last>>
    /\ UNCHANGED watchVars

\* Lines 76-79: open(public_path, 'wb'), write, and return.
KeysWritePub(p) ==
    /\ procs[p].pc = "write_pub"
    /\ keys' = [keys EXCEPT !.pubExists = TRUE, !.pub = procs[p].pub]
    /\ procs' = [procs EXCEPT ![p].pc = "out", ![p].returned = TRUE]
    /\ UNCHANGED <<fs, clock, settings, hist, ops, last>>
    /\ UNCHANGED watchVars

\* The processes start on an empty key directory.
InitRace ==
    /\ fs = [p \in Paths |-> NoFile]
    /\ keys = NoKeys
    /\ clock = [date |-> 1, tick |-> 0]
    /\ settings = [add_visual_seal |-> TRUE, seal_text |-> SEAL_TEXT_DEFAULT]
    /\ hist = [p \in Paths |-> NoHist]
    /\ ops = 0
    /\ last = NoLast
    /\ procs = NoProcs
    /\ NoWatching

NextRace ==
    \/ \E p \in 1..MaxProcs : KeysCheck(p)
    \/ \E p \in 1..MaxProcs : KeysReadPriv(p)
    \/ \E p \in 1..MaxProcs : KeysReadPub(p)
    \/ \E p \in 1..MaxProcs : KeysWritePriv(p)
    \/ \E p \in 1..MaxProcs : KeysWritePub(p)

SpecRace == InitRace /\ [][NextRace]_vars

\* C21: racing processes cannot corrupt the key files.  When no process is
\* inside get_or_create_keys, the two files on disk belong to one key pair,
\* and every pair a call has returned is a matching pair.
C21_RaceLeavesOnePair ==
    /\ (\A p \in 1..MaxProcs : procs[p].pc = "out")
       => ((keys.privExists \/ keys.pubExists) => MatchingPair(keys.priv, keys.pub))
    /\ \A p \in 1..MaxProcs :
          procs[p].returned => MatchingPair(procs[p].priv, procs[p].pub)

----------------------------------------------------------------------------
(* verify_signature on arbitrary arguments *)

DigestHello == _calculate_content_hash(<<Page(<<LineHello>>, <<>>, <<>>)>>)
DigestHelloBang == _calculate_content_hash(<<Page(<<LineHelloBang>>, <<>>, <<>>)>>)

\* Digest arguments: two digests, and a value that is no string.
SigDigests == {Str(DigestHello), Str(DigestHelloBang), None}

\* Signature arguments: the signatures of the two digests under two keys,
\* each also with a character outside the base64 alphabet put into it or
\* after it, a text that is no signature, an empty text, and values that are
\* no string.
SigTexts ==
    LET good == {SignatureOf(PrivPem(k), d) : k \in 1..2, d \in {DigestHello, DigestHelloBang}}
    IN  {Str(t) : t \in good}
            \cup {Str(InsertAt(t, 3, "$")) : t \in good}
            \cup {Str(t \o <<CR>>) : t \in good}
            \cup {Str(<<"$", "$">>), Str(<<>>), None, Num(1)}

\* Key arguments: two public keys, a text that is no PEM, and empty bytes.
SigKeys == {PubPem(1), PubPem(2), <<"x", "y", "z", "w">>, <<>>}

\* verify_signature(content_hash, signature_b64, public_key_pem)
VerifySignature(content_hash, signature_b64, public_key_pem) ==
    \E r \in {verify_signature_call(content_hash, signature_b64, public_key_pem)} :
        /\ last' = [NoLast EXCEPT !.op = "verify_signature", !.raised = r.raised,
                                  !.args = [content_hash |-> content_hash,
                                            signature_b64 |-> signature_b64,
                                            public_key_pem |-> public_key_pem,
                                            returned |-> r.result]]
        /\ UNCHANGED <<fs, keys, clock, settings, hist, ops>>
        /\ UNCHANGED <<watchVars, procs>>

NextSig ==
    \E content_hash \in SigDigests, signature_b64 \in SigTexts, public_key_pem \in SigKeys :
        VerifySignature(content_hash, signature_b64, public_key_pem)

SpecSig == InitRace /\ [][NextSig]_vars

\* The text is exactly the base64 text of a signature of the digest made
\* with the private key of the given public key.
IsSignatureOf(signature_b64, content_hash, public_key_pem) ==
    /\ PubLoads(public_key_pem)
    /\ signature_b64.t = "str"
    /\ content_hash.t = "str"
    /\ signature_b64.s = SignatureOf(PrivPem(IndexIn(public_key_pem[Len(public_key_pem)], Digits) - 1), content_hash.s)

\* C22: verify_signature is a total boolean function.  It never raises, and
\* it returns True only for the base64 text of a signature of exactly that
\* digest under exactly that key: False for a malformed text, an unparsable
\* key, another digest and another key.
C22_VerifySignatureTotal ==
    last.op = "verify_signature"
    => /\ ~last.raised
       /\ last.args.returned
          => IsSignatureOf(last.args.signature_b64, last.args.content_hash, last.args.public_key_pem)

----------------------------------------------------------------------------
(* core/hasher.py: verify_hash, and the comparison of verify_pdf *)

\* verify_hash(file_path, expected_hash) on a file that exists
verify_hash(file, expected_hash) ==
    calculate_sha256(file) =
        (IF ~StartsWith(expected_hash, Sha256Prefix)
         THEN Sha256Prefix \o expected_hash ELSE expected_hash)

\* A hash without its namespace prefix, and equality up to the prefix.
BareHex(h) == IF StartsWith(h, Sha256Prefix) THEN SubSeq(h, Len(Sha256Prefix) + 1, Len(h)) ELSE h
HashesEqual(a, b) == BareHex(a) = BareHex(b)

\* The expected values a caller may pass for a file: its digest and the digest
\* of other bytes, each with the prefix and as bare hex.
ExpectedHashes(file) ==
    LET digests == {calculate_sha256(file), Digest(<<"a", "b", "c">>)}
    IN  digests \cup {BareHex(h) : h \in digests}

\* Documents whose record holds the content hash of the document or of other
\* text, with the prefix or as bare hex; the record is not signed.
HashRecords(pages) ==
    LET hashes == {_calculate_content_hash(pages), DigestHelloBang}
    IN  {SentinelData(Digest(<<"a", "b", "c">>), h, IsoFormat([date |-> 1, tick |-> 0]), <<>>, <<>>) :
            h \in hashes \cup {BareHex(h) : h \in hashes}}

\* verify_hash(file_path, expected_hash)
VerifyHash(file_path, expected_hash) ==
    /\ fs[file_path].exists
    /\ last' = [NoLast EXCEPT !.op = "verify_hash", !.input = file_path, !.path = file_path,
                              !.args = [NoArgs EXCEPT
                                           !.content_hash = Str(expected_hash),
                                           !.returned = verify_hash(fs[file_path], expected_hash)]]
    /\ UNCHANGED <<fs, keys, clock, settings, hist, ops>>
    /\ UNCHANGED <<watchVars, procs>>

InitHash ==
    /\ \E pages \in TextDocs : \E record \in HashRecords(pages) :
          fs = [p \in Paths |-> IF p = InputPath
                                THEN File(pages, JsonDumps(JDict(record))) ELSE NoFile]
    /\ keys = NoKeys
    /\ clock = [date |-> 1, tick |-> 0]
    /\ settings = [add_visual_seal |-> TRUE, seal_text |-> SEAL_TEXT_DEFAULT]
    /\ hist = [p \in Paths |-> NoHist]
    /\ ops = 0
    /\ last = NoLast
    /\ procs = NoProcs
    /\ NoWatching

NextHash ==
    \/ \E expected_hash \in ExpectedHashes(fs[InputPath]) : VerifyHash(InputPath, expected_hash)
    \/ Verify(InputPath)

SpecHash == InitHash /\ [][NextHash]_vars

\* C23: hash comparison is prefix-insensitive.  verify_hash answers whether
\* the file's digest equals the expected value up to the "sha256:" prefix,
\* and verify_pdf reports VERIFIED exactly when the stored and the recomputed
\* content hash are equal up to the prefix.
C23_PrefixInsensitive ==
    /\ last.op = "verify_hash"
       => last.args.returned = HashesEqual(calculate_sha256(fs[last.path]), last.args.content_hash.s)
    /\ (last.op = "verify" /\ last.result.status \in {"VERIFIED", "TAMPERED"})
       => (last.result.status = "VERIFIED")
              = HashesEqual(RecordOf(fs[last.path])["sentinel_content_hash"].s,
                            last.result.current_hash.s)

----------------------------------------------------------------------------
(* Sessions of the folder watcher: start, stop and start again *)

\* The same file arrives again and again; every callback returns.
NextSession ==
    \/ Start
    \/ StopBegin
    \/ StopReturn
    \/ FsCreate(Event(InputPath, FALSE))
    \/ \E s \in 1..MaxSessions : Dispatch(s)
    \/ \E s \in 1..MaxSessions : GraceOver(s)
    \/ \E s \in 1..MaxSessions : CallbackEnds(s, "returned", "idle")
    \/ \E s \in 1..MaxSessions : ThreadExit(s)

SpecSession == InitWatch /\ [][NextSession]_vars

\* The paths for which session s has entered the callback.
CalledIn(s) == {PathStr(wlog.calls[i].path) : i \in {i \in 1..Len(wlog.calls) : wlog.calls[i].s = s}}

\* C24: the processed set is scoped to one session.  The set of a session
\* holds exactly the paths for which that session has entered the callback
\* (so a new session starts with an empty set), no step removes a path from
\* it, and an on_created call for a qualifying path ends without a callback
\* only if the same session has entered the callback for that path.
C24_ProcessedPerSession ==
    /\ [](\A s \in 1..MaxSessions : observers[s].processed = CalledIn(s))
    /\ [][\A s \in 1..MaxSessions : observers[s].processed \subseteq observers'[s].processed]_vars
    /\ [](\A i \in 1..Len(wlog.handled) :
             (~wlog.handled[i].called /\ ~Skips(wlog.handled[i].event, {}))
             => CallsFor(wlog.handled[i].s, wlog.handled[i].event.path) = 1)

\* The first session was stopped after its callback for a.pdf, and the
\* second session has entered the callback for a.pdf too.
C24_Witness ==
    /\ 1 \in wlog.returned
    /\ CallsFor(1, InputPath) = 1
    /\ CallsFor(2, InputPath) = 1

----------------------------------------------------------------------------
(* Properties of the record and of the two fingerprints *)

\* C25: the record stamp_pdf writes is self-consistent.  Its signature is a
\* signature of its content hash made with the local private key, its key
\* fingerprint is that of the local public key, and verify_pdf on the file,
\* on the same installation and with nothing done to the file since, gives
\* signature_valid = True.
C25_RecordSelfConsistent ==
    /\ (last.op = "stamp" /\ ~last.raised)
       => /\ HasLocalKey(keys)
          /\ RecordOf(fs[last.path])["sentinel_signature"]
                = Str(SignatureOf(keys.priv, RecordOf(fs[last.path])["sentinel_content_hash"].s))
          /\ RecordOf(fs[last.path])["sentinel_content_hash"] = Str(last.content_hash)
          /\ RecordOf(fs[last.path])["sentinel_key_fingerprint"] = LocalFingerprint(keys)
          /\ MatchingPair(keys.priv, keys.pub)
    /\ (/\ last.op = "verify"
        /\ last.before = "stamped"
        /\ HasLocalKey(keys)
        /\ LocalFingerprint(keys) = Str(hist[last.path].key_fingerprint))
       => /\ ~last.raised
          /\ last.result.signature_valid = "True"

\* The two fingerprints on documents of up to two pages, with lines that
\* look like seal lines among the text.
MaxPrintLines == 2     \* text lines on page 0

LineHashLike == HashLabel \o <<"a", "b", "c">>
PrintLines == UserLines \cup {SEAL_TEXT_DEFAULT, LineHashLike, <<>>}

PrintDocs ==
    LET first == {Page(ls, <<>>, imgs) :
                     ls \in UNION {[1..m -> PrintLines] : m \in 0..MaxPrintLines},
                     imgs \in {<<>>, <<ImgDescriptor>>}}
        second == {Page(ls, <<>>, <<>>) : ls \in UNION {[1..m -> PrintLines] : m \in 0..1}}
    IN  {<<p>> : p \in first} \cup {<<p, q>> : p \in first, q \in second}

HasSealLikeLine(page) == \E i \in 1..Len(page.lines) : IsSealLine(page.lines[i])

InitPrint ==
    /\ \E pages \in PrintDocs :
          fs = [p \in Paths |-> IF p = InputPath THEN File(pages, NoKeywords) ELSE NoFile]
    /\ keys = NoKeys
    /\ clock = [date |-> 1, tick |-> 0]
    /\ settings = [add_visual_seal |-> TRUE, seal_text |-> SEAL_TEXT_DEFAULT]
    /\ hist = [p \in Paths |-> NoHist]
    /\ ops = 0
    /\ last = NoLast
    /\ procs = NoProcs
    /\ NoWatching

\* _calculate_content_hash(fitz.open(pdf_path)) and
\* get_current_content_hash(pdf_path) on the same file
Fingerprints(pdf_path) ==
    /\ fs[pdf_path].exists
    /\ last' = [NoLast EXCEPT !.op = "fingerprints", !.input = pdf_path, !.path = pdf_path,
                              !.content_hash = _calculate_content_hash(fs[pdf_path].pages),
                              !.args = [NoArgs EXCEPT !.content_hash =
                                           get_current_content_hash(fs[pdf_path])]]
    /\ UNCHANGED <<fs, keys, clock, settings, hist, ops>>
    /\ UNCHANGED <<watchVars, procs>>

NextPrint == Fingerprints(InputPath)

SpecPrint == InitPrint /\ [][NextPrint]_vars

\* C26: on a document whose page 0 has no line that begins, after trimming,
\* with a seal marker, get_current_content_hash returns the digest that
\* _calculate_content_hash returns, whatever lines the other pages hold.
C26_FingerprintsAgree ==
    (last.op = "fingerprints" /\ ~HasSealLikeLine(fs[last.path].pages[1]))
    => last.args.content_hash = Str(last.content_hash)

\* Both fingerprints were computed for a document with two text lines on
\* page 0, none of them like a seal line, and a line like a seal line on
\* its second page.
C26_Witness ==
    /\ last.op = "fingerprints"
    /\ Len(fs[last.path].pages) = 2
    /\ Len(fs[last.path].pages[1].lines) = 2
    /\ ~HasSealLikeLine(fs[last.path].pages[1])
    /\ HasSealLikeLine(fs[last.path].pages[2])
    /\ last.args.content_hash = Str(last.content_hash)

\* C27: the content fingerprint is idempotent under stamping.  stamp_pdf on
\* a stamped document that carries a visible seal records the content hash
\* recorded for the document the seal was put on, and verify_pdf on the
\* twice-stamped file returns VERIFIED.
C27_RestampKeepsContentHash ==
    /\ (/\ last.op = "stamp"
        /\ ~last.raised
        /\ hist[last.input].st \in {"stamped", "verified"}
        /\ hist[last.input].sealed)
       => last.content_hash = hist[last.input].content_hash
    /\ (/\ last.op = "verify"
        /\ last.before = "stamped"
        /\ hist[last.path].restamp
        /\ HasLocalKey(keys)
        /\ LocalFingerprint(keys) = Str(hist[last.path].key_fingerprint))
       => last.result.status = "VERIFIED"

\* C28: verify_pdf changes no persisted state.  The key directory after a
\* call of verify_pdf is the key directory before it.
C28_VerifyKeepsKeyDirectory ==
    last.op = "verify" => ~last.keysChanged

\* The records that differ from record d in nothing but the value of
\* sentinel_hash (non-empty like d's), the timestamp, the version, the
\* signature and the key fingerprint.
OtherFileHash == <<"f", "f">>
StatusVariants(d) ==
    {[d EXCEPT !["sentinel_hash"] = h,
               !["sentinel_timestamp"] = t,
               !["sentinel_version"] = t,
               !["sentinel_signature"] = g,
               !["sentinel_key_fingerprint"] = f] :
        h \in IF Truthy(d["sentinel_hash"])
              THEN {d["sentinel_hash"], Str(OtherFileHash)} ELSE {d["sentinel_hash"]},
        t \in {Missing, Str(SampleTimestamp)},
        g \in {Missing, Str(SignatureOf(PrivPem(1), SampleContentHash)), Str(<<"x">>)},
        f \in {Missing, Str(get_key_fingerprint(PubPem(1))),
               Str(get_key_fingerprint(PubPem(2)))}}

\* The file with record d in its keyword field instead of its own.
WithRecord(file, d) == [file EXCEPT !.keywords = JsonDumps(JDict(d))]

\* C29: the status verify_pdf returns depends only on the path, the presence
\* of a record, the non-emptiness of sentinel_hash, the stored content hash
\* and the recomputed one.  After a call that returned for a file with a
\* record, the same call on the same document with any record that differs
\* only in the other fields, under any key directory, returns the same
\* status; VERIFIED is returned only for a legacy record or equal content
\* hashes, and TAMPERED only for content hashes that differ.
C29_StatusFromHashesOnly ==
    (last.op = "verify" /\ ~last.raised /\ RecordOf(fs[last.path]) # EmptyDict)
    => LET file == fs[last.path]
           d == RecordOf(file)
           stored == DictGet(d, "sentinel_content_hash")
           current == get_current_content_hash(file)
       IN  /\ \A d2 \in StatusVariants(d) : \A ks \in MetaKeys :
                LET r == verify_pdf([fs EXCEPT ![last.path] = WithRecord(file, d2)],
                                    ks, last.path)
                IN  ~r.raised /\ r.result.status = last.result.status
           /\ last.result.status = "VERIFIED" => (~Truthy(stored) \/ stored = current)
           /\ last.result.status = "TAMPERED" => (Truthy(stored) /\ stored # current)

\* verify_pdf returned VERIFIED with a valid signature for a signed record:
\* among the records compared there are unsigned and wrongly signed ones.
C29_Witness ==
    /\ last.op = "verify" /\ ~last.raised
    /\ last.result.status = "VERIFIED"
    /\ last.result.signature_valid = "True"
    /\ Truthy(DictGet(RecordOf(fs[last.path]), "sentinel_content_hash"))

\* C30: no retry after a failure.  The path of a running callback is in the
\* processed set of its session; a path whose callback raised stays in it,
\* the callback was entered once for it, and every later on_created call of
\* the session for that path found it recorded and ended without a callback.
C30_NoRetryAfterFailure ==
    /\ \A s \in 1..MaxSessions :
          observers[s].pc = "callback"
          => PathStr(observers[s].cur.path) \in observers[s].processed
    /\ \A i \in 1..Len(wlog.handled) :
          wlog.handled[i].raised
          => LET s == wlog.handled[i].s
                 path == wlog.handled[i].event.path
             IN  /\ PathStr(path) \in observers[s].processed
                 /\ CallsFor(s, path) = 1
                 /\ \A j \in (i + 1)..Len(wlog.handled) :
                       (wlog.handled[j].s = s /\ wlog.handled[j].event.path = path)
                       => (~wlog.handled[j].called /\ wlog.handled[j].seen)

\* The callback for a.pdf raised, the observer thread went on, and a later
\* on_created call for a.pdf ended without a callback.
C30_Witness ==
    \E i, j \in 1..Len(wlog.handled) :
        /\ i < j
        /\ wlog.handled[i].raised
        /\ wlog.handled[i].event.path = InputPath
        /\ wlog.handled[j].s = wlog.handled[i].s
        /\ wlog.handled[j].event.path = InputPath
        /\ ~wlog.handled[j].called

====
